---- MODULE Spec2Model ----
(***************************************************************************)
(* A model of the Spark server hub: the device registry and its DEVICE_UP  *)
(* handler, the melody session (output queue, pumps, teardown), the event  *)
(* correlator (CallEvent / AddEventOnce / AddEvent / RemoveEvent) and the  *)
(* operator command endpoints built on it.                                 *)
(***************************************************************************)
EXTENDS Integers, Sequences, FiniteSets, TLC

\* ------------------------------------------------------------------ bounds
NumSessions == 2      \* device websocket sessions that ever connect
NumDeviceIDs == 1     \* distinct device identities
MaxFrames == 2        \* frames one device session sends
QueueCap == 2         \* capacity of a session's output channel (MessageBufferSize, scaled)
NumTriggers == 2      \* trigger UUIDs handed out by utils.GetStrUUID
NumCallers == 2       \* goroutines that may be inside CallEvent at once
NumRemovers == 1      \* goroutines that may be inside RemoveEvent at once
MaxCalls == 2         \* packets carrying one trigger that reach CallEvent
MaxRequests == 1      \* operator requests that are served
NumSubs == 2          \* terminal / desktop sub-sessions that operators open
NumWriters == 2       \* goroutines that write to sessions concurrently
NumClosers == 2       \* goroutines that may call Session.close at once
NumBridges == 1       \* bridge UUIDs
NumBridgeReqs == 3    \* push / pull requests

\* utility.WSHealthCheck
MaxIdleSeconds == 300
SubTickSeconds == 60

\* bridge.init: the sweep's ticker and the age it collects at
SweepSeconds == 15
BridgeMaxAge == 60

Sessions == 1..NumSessions
DeviceIDs == 1..NumDeviceIDs
Triggers == 1..NumTriggers
Callers == 1..NumCallers
Removers == 1..NumRemovers
SubIDs == 1..NumSubs
Writers == 1..NumWriters
Closers == 1..NumClosers
BridgeIDs == 1..NumBridges
BridgeReqs == 1..NumBridgeReqs

\* The empty string `` used for "no connection UUID" / "no device id" / "no event".
NoConn == 0
NoID == 0
NoTrigger == 0

VARIABLES
    \* ---- melody hub and sessions
    hub,        \* UUIDs of the sessions in common.Melody's hub
    sstate,     \* per session: "new" (not yet upgraded), "open", "closed"
    output,     \* per session: the buffered output channel, oldest first
    wpExited,   \* per session: writePump has left its loop
    \* ---- device registry
    Devices,    \* common.Devices: connection UUID -> device ID
    rp,         \* per session: the reader goroutine (readPump and what it calls)
    fb,         \* the goroutine serving an HTTP fallback POST, and the session it found
    frames,     \* per session: frames the device has sent so far
    offlineSent,\* history: an OFFLINE packet was enqueued for the session
    kicked,     \* history: kicked[a] = [by, id] of the DEVICE_UP pass that found a
    lastUp,     \* history: per device ID, the session whose DEVICE_UP pass came last
    lastID,     \* history: per session, the ID of its latest DEVICE_UP
    \* ---- event correlator
    events,     \* common.events: trigger -> [connection, once]
    used,       \* triggers already handed out
    wpc,        \* per trigger: where the AddEventOnce caller stands
    wsrc,       \* per trigger: the select case AddEventOnce took
    wret,       \* per trigger: AddEventOnce's return value
    finClosed,  \* per trigger: ev.finish has been closed
    remClosed,  \* per trigger: ev.remove has been closed
    callers,    \* per caller: a CallEvent invocation in progress
    removers,   \* per remover: a RemoveEvent invocation in progress
    cbCount,    \* history: how often the trigger's callback ran
    cbLog,      \* history: <<trigger, session>> of every callback invocation
    evConn,     \* history: the connection UUID recorded when the trigger was installed
    rmHit,      \* history: a RemoveEvent removed the trigger's entry
    calls,      \* per trigger: CallEvent invocations so far
    \* ---- operator command endpoints
    req,        \* per trigger: the operator request that generated it
    hpc,        \* per trigger: where the request handler stands
    resp,       \* per trigger: HTTP status written to the operator (0 = none yet)
    delivered,  \* per trigger: the session the command packet was written to (or NoConn)
    sentCmd,    \* history: the command packet was put on a session's output channel
    replied,    \* history: per trigger, the codes of the replies the device has sent
    okInTime,   \* history: a code-0 reply entered CallEvent before the timer fired
    form,       \* history: per trigger, the form CheckForm saw and what it found
    \* ---- terminal / desktop sub-sessions
    subs,       \* per sub-session: [st, kind, device, conn] of its Terminal / Desktop attachment
    \* ---- melody session internals
    sw,         \* per writer goroutine: its position in Write / WriteBinary / Close
    sc,         \* per closer goroutine: its position in Session.close
    chanCloses, \* per session: how often close(s.output) ran
    connCloses, \* per session: how often s.conn.Close() ran
    stale,      \* per session: LastPack is more than MaxIdleSeconds old
    reaped,     \* history: the reaper's tick called Close on the session
    \* ---- ingress
    lastIn,     \* history: the last frame wsOnMessageBinary handled, and on which session
    \* ---- sub-session hubs
    subOut,     \* per sub-session: the envelopes queued for the operator's websocket
    subIdle,    \* per sub-session: seconds since LastPack was set
    subTick,    \* seconds since WSHealthCheck's ticker last fired
    lastOp,     \* history: the last operator frame onTerminalMessage handled, and its sub-session
    \* ---- bridges
    bridges,    \* the UUIDs in the bridge table
    bobj,       \* per UUID: the Bridge object [made, using, src, dst, age], alive while referenced
    breq,       \* per push / pull request: its position in BridgePush / BridgePull
    gc,         \* the sweep goroutine: [due, panicked, sweeps]
    bhist,      \* history per UUID: [passed, spliced, finished, removed]
    \* ---- server main
    hs,         \* the last request to /ws: what it presented and how it was answered
    pl,         \* the device hub's ping loop: tick, pingInterval, the clock, its last round
    sd,         \* main's shutdown: [signalled, httpDown, exited]
    \* ---- utils
    cr,         \* the last Encrypt / Decrypt round trip: its inputs and results
    \* ---- handlers that wait for a bridge
    wh          \* one GetScreenshot / GetDeviceFiles request, its callback and the push

regHist == <<offlineSent, kicked, lastUp, lastID>>
regVars == <<hub, sstate, output, wpExited, Devices, rp, fb, frames, regHist>>
evVars == <<events, used, wpc, wsrc, wret, finClosed, remClosed, callers, removers,
            cbCount, cbLog, evConn, rmHit, calls>>
opVars == <<req, hpc, resp, delivered, sentCmd, replied, okInTime, form>>
subVars == <<subs>>
sesVars == <<sw, sc, chanCloses, connCloses, stale, reaped>>
ingVars == <<lastIn>>
termVars == <<subOut, subIdle, subTick, lastOp>>
brVars == <<bridges, bobj, breq, gc, bhist>>
mainVars == <<hs, pl, sd>>
auxVars == <<cr, wh>>
extVars == <<subVars, sesVars, ingVars, termVars, brVars, mainVars, auxVars>>
vars == <<regVars, evVars, opVars, extVars>>

\* ------------------------------------------------------------------ cmap
\* ConcurrentMap.Set / Remove / Has on a map held as a function.
MapSet(m, k, v) == [x \in (DOMAIN m) \cup {k} |-> IF x = k THEN v ELSE m[x]]
MapRemove(m, k) == [x \in (DOMAIN m) \ {k} |-> m[x]]
MapHas(m, k) == k \in DOMAIN m

EmptyMap == [x \in {} |-> 0]

\* A sub-session slot no operator has opened yet.
NoSub == [st |-> "none", kind |-> "none", device |-> NoID, conn |-> NoConn, uuid |-> NoTrigger]

\* ------------------------------------------------------------------ melody session
\* Session.writeMessage: nothing is enqueued on a closed session, and a full
\* channel drops the envelope (select ... default).
WriteMessage_NoDefault(q, isOpen, env) == IF ~isOpen THEN q ELSE Append(q, env)
WriteMessage(q, isOpen, env) ==
    IF ~isOpen THEN q
    ELSE IF Len(q) < QueueCap THEN Append(q, env)
    ELSE q

\* Envelopes on the output channel: a binary message (a packet; t is the event it
\* carries when it is a command) and a close message.
MsgEnv == [kind |-> "msg", t |-> NoTrigger]
CloseEnv == [kind |-> "close", t |-> NoTrigger]
CmdEnv(t) == [kind |-> "msg", t |-> t]

\* Whether writeMessage put the envelope on the channel.
Enqueued(q, isOpen) == isOpen /\ Len(q) < QueueCap

\* common.SendPack on a session of the hub: Session.WriteBinary -> writeMessage.
SendPack(q, isOpen) == WriteMessage(q, isOpen, MsgEnv)

\* Session.Close: a close envelope through writeMessage.
Close(q, isOpen) == WriteMessage(q, isOpen, CloseEnv)

IsOpen(s) == sstate[s] = "open"

IdleH == [pc |-> "idle", id |-> NoID, ex |-> NoConn]
IdleF == [pc |-> "idle", s |-> NoConn, id |-> NoID, ex |-> NoConn]

\* The goroutine that runs wsOnMessageBinary: the session's reader ("ws") or the
\* HTTP fallback of wsHandshake ("http").
Vias == {"ws", "http"}
H(via, s) ==
    IF via = "ws" THEN rp[s]
    ELSE IF fb.pc = "idle" THEN IdleH
    ELSE IF fb.s = s THEN [pc |-> fb.pc, id |-> fb.id, ex |-> fb.ex]
    ELSE [IdleH EXCEPT !.pc = "busy"]
SetH(via, s, rec) ==
    IF via = "ws"
    THEN rp' = [rp EXCEPT ![s] = rec] /\ UNCHANGED fb
    ELSE /\ fb' = IF rec.pc = "idle" THEN IdleF
                  ELSE [pc |-> rec.pc, s |-> s, id |-> rec.id, ex |-> rec.ex]
         /\ UNCHANGED rp

\* A message can be taken up: by readPump while the connection is read, by
\* wsHandshake's fallback while CheckClientReq finds the session in the hub.
CanStart(via, s) ==
    /\ H(via, s).pc = "idle"
    /\ frames[s] < MaxFrames
    /\ IF via = "ws" THEN IsOpen(s) ELSE s \in hub

\* HandleRequestWithKeys: the upgrade registers a fresh session in the hub.
Connect(s) ==
    /\ sstate[s] = "new"
    /\ sstate' = [sstate EXCEPT ![s] = "open"]
    /\ hub' = hub \cup {s}
    /\ UNCHANGED <<output, wpExited, Devices, rp, fb, frames, regHist>>
    /\ UNCHANGED <<evVars, opVars>>
    /\ UNCHANGED extVars

\* The uuids IterCb can stop at: any entry whose ID matches (iteration order of
\* the shards and of a Go map is arbitrary).
Matches(devs, id) == {u \in DOMAIN devs : devs[u] = id}

\* OnDevicePack, act DEVICE_UP, the IterCb pass: find a session holding the ID,
\* send it OFFLINE and close it.
DeviceUp_Scan(via, s, id) ==
    /\ CanStart(via, s)
    /\ \E ex \in (IF Matches(Devices, id) = {} THEN {NoConn} ELSE Matches(Devices, id)) :
        /\ SetH(via, s, [pc |-> IF ex = NoConn THEN "set" ELSE "remove", id |-> id, ex |-> ex])
        /\ IF ex # NoConn /\ ex \in hub
           THEN /\ output' = [output EXCEPT ![ex] = Close(SendPack(@, IsOpen(ex)), IsOpen(ex))]
                /\ offlineSent' = [offlineSent EXCEPT ![ex] = @ \/ Enqueued(output[ex], IsOpen(ex))]
           ELSE UNCHANGED <<output, offlineSent>>
        /\ kicked' = IF ex # NoConn /\ ex # s
                     THEN [kicked EXCEPT ![ex] = [by |-> s, id |-> id]]
                     ELSE kicked
    /\ lastUp' = [lastUp EXCEPT ![id] = s]
    /\ lastID' = [lastID EXCEPT ![s] = id]
    /\ frames' = [frames EXCEPT ![s] = @ + 1]
    /\ UNCHANGED <<hub, sstate, wpExited, Devices>>
    /\ UNCHANGED <<evVars, opVars>>
    /\ UNCHANGED extVars

\* OnDevicePack: common.Devices.Remove(exSession).
DeviceUp_Remove(via, s) ==
    /\ H(via, s).pc = "remove"
    /\ Devices' = MapRemove(Devices, H(via, s).ex)
    /\ SetH(via, s, [H(via, s) EXCEPT !.pc = "set"])
    /\ UNCHANGED <<hub, sstate, output, wpExited, frames, regHist>>
    /\ UNCHANGED <<evVars, opVars>>
    /\ UNCHANGED extVars

\* OnDevicePack: common.Devices.Set(session.UUID, &pack.Device), then the
\* {code:0} reply to the sender.
DeviceUp_Set(via, s) ==
    /\ H(via, s).pc = "set"
    /\ Devices' = MapSet(Devices, s, H(via, s).id)
    /\ output' = [output EXCEPT ![s] = SendPack(@, IsOpen(s))]
    /\ SetH(via, s, IdleH)
    /\ UNCHANGED <<hub, sstate, wpExited, frames, regHist>>
    /\ UNCHANGED <<evVars, opVars>>
    /\ UNCHANGED extVars

\* OnDevicePack, act DEVICE_UPDATE: the entry's metrics are refreshed in place
\* (never its ID), then the {code:0} reply.
DeviceUpdate(via, s) ==
    /\ CanStart(via, s)
    /\ output' = [output EXCEPT ![s] = SendPack(@, IsOpen(s))]
    /\ frames' = [frames EXCEPT ![s] = @ + 1]
    /\ UNCHANGED <<hub, sstate, wpExited, Devices, rp, fb, regHist>>
    /\ UNCHANGED <<evVars, opVars>>
    /\ UNCHANGED extVars

\* writePump: take the next envelope and write it; a close frame ends the loop.
\* On a closed session the channel is closed and the loop ends.
WritePump(s) ==
    /\ sstate[s] # "new"
    /\ ~wpExited[s]
    /\ IF IsOpen(s)
       THEN /\ Len(output[s]) > 0
            /\ output' = [output EXCEPT ![s] = Tail(@)]
            /\ wpExited' = [wpExited EXCEPT ![s] = (Head(output[s]).kind = "close")]
            /\ delivered' = IF Head(output[s]).t # NoTrigger
                             THEN [delivered EXCEPT ![Head(output[s]).t] = s]
                             ELSE delivered
       ELSE /\ wpExited' = [wpExited EXCEPT ![s] = TRUE]
            /\ UNCHANGED <<output, delivered>>
    /\ UNCHANGED <<hub, sstate, Devices, rp, fb, frames, regHist>>
    /\ UNCHANGED <<evVars, req, hpc, resp, sentCmd, replied, okInTime, form>>
    /\ UNCHANGED extVars

\* writePump: writeRaw fails (write deadline, broken connection); the loop ends.
WriteError(s) ==
    /\ IsOpen(s)
    /\ ~wpExited[s]
    /\ Len(output[s]) > 0
    /\ output' = [output EXCEPT ![s] = Tail(@)]
    /\ wpExited' = [wpExited EXCEPT ![s] = TRUE]
    /\ UNCHANGED <<hub, sstate, Devices, rp, fb, frames, regHist>>
    /\ UNCHANGED <<evVars, opVars>>
    /\ UNCHANGED extVars

\* readPump: ReadMessage returns an error (peer gone, close frame answered,
\* read deadline) and the loop ends.
ReadError(s) ==
    /\ IsOpen(s)
    /\ rp[s].pc = "idle"
    /\ rp' = [rp EXCEPT ![s] = [IdleH EXCEPT !.pc = "end"]]
    /\ UNCHANGED <<hub, sstate, output, wpExited, Devices, fb, frames, regHist>>
    /\ UNCHANGED <<evVars, opVars>>
    /\ UNCHANGED extVars

\* After readPump returns: the session leaves the hub and is closed
\* (Session.close: open = false, the connection and the channel are closed).
SessionEnd(s) ==
    /\ rp[s].pc = "end"
    /\ hub' = hub \ {s}
    /\ sstate' = [sstate EXCEPT ![s] = "closed"]
    /\ rp' = [rp EXCEPT ![s].pc = "disc"]
    /\ UNCHANGED <<output, wpExited, Devices, fb, frames, regHist>>
    /\ UNCHANGED <<evVars, opVars>>
    /\ UNCHANGED extVars

\* common.CheckDevice: the possible results <<uuid, ok>> (IterCb may stop at
\* any matching entry).
CheckDevice(devs, deviceID, connUUID) ==
    IF connUUID # NoConn
    THEN IF ~MapHas(devs, connUUID)
         THEN {<<connUUID, TRUE>>}
         ELSE {<<NoConn, FALSE>>}
    ELSE IF Matches(devs, deviceID) = {}
         THEN {<<NoConn, FALSE>>}
         ELSE {<<u, TRUE>> : u \in Matches(devs, deviceID)}

\* ------------------------------------------------------------------ session internals
IdleW == [pc |-> "idle", s |-> NoConn, full |-> FALSE, late |-> FALSE, ret |-> "none"]
IdleK == [pc |-> "idle", s |-> NoConn]

\* What Write, WriteBinary, Close and CloseWithMsg return once writeMessage
\* has been called, whatever writeMessage did with the envelope.
ReturnAfterWriteMessage(kept) == "nil"

\* Write / WriteBinary / Close / CloseWithMsg: the closed() check on entry.
\* late records that the session was already closed when the call began.
Write_Check(w, s) ==
    /\ sw[w].pc = "idle"
    /\ sstate[s] # "new"
    /\ sw' = [sw EXCEPT ![w] = IF IsOpen(s)
                                THEN [pc |-> "wm", s |-> s, full |-> FALSE,
                                      late |-> FALSE, ret |-> "none"]
                                ELSE [pc |-> "idle", s |-> s, full |-> FALSE,
                                      late |-> TRUE, ret |-> "err"]]
    /\ UNCHANGED <<sc, chanCloses, connCloses, stale, reaped>>
    /\ UNCHANGED <<regVars, evVars, opVars, subVars, ingVars, termVars, brVars, auxVars, mainVars>>

\* writeMessage: its own closed() check; on a closed session it calls the
\* error handler and returns, and the caller returns nil.
WriteMessage_Check(w) ==
    /\ sw[w].pc = "wm"
    /\ sw' = [sw EXCEPT ![w] = IF IsOpen(sw[w].s)
                                THEN [@ EXCEPT !.pc = "select"]
                                ELSE [@ EXCEPT !.pc = "idle", !.late = TRUE,
                                               !.ret = ReturnAfterWriteMessage(FALSE)]]
    /\ UNCHANGED <<sc, chanCloses, connCloses, stale, reaped>>
    /\ UNCHANGED <<regVars, evVars, opVars, subVars, ingVars, termVars, brVars, auxVars, mainVars>>

\* writeMessage: select { case s.output <- message: default: errorHandler }.
\* A send on a channel that close() has closed panics.
WriteMessage_Select(w) ==
    /\ sw[w].pc = "select"
    /\ LET s == sw[w].s IN
       IF chanCloses[s] > 0
       THEN /\ sw' = [sw EXCEPT ![w] = [@ EXCEPT !.pc = "panic", !.late = TRUE, !.ret = "panic"]]
            /\ UNCHANGED output
       ELSE /\ output' = [output EXCEPT ![s] = WriteMessage(@, TRUE, MsgEnv)]
            /\ sw' = [sw EXCEPT ![w] =
                        [@ EXCEPT !.pc = "idle",
                                  !.full = (Len(output[s]) >= QueueCap),
                                  !.ret = ReturnAfterWriteMessage(Enqueued(output[s], TRUE))]]
    /\ UNCHANGED <<sc, chanCloses, connCloses, stale, reaped>>
    /\ UNCHANGED <<hub, sstate, wpExited, Devices, rp, fb, frames, regHist>>
    /\ UNCHANGED <<evVars, opVars, subVars, ingVars, termVars, brVars, auxVars, mainVars>>

\* Session.close: the closed() check, made before the lock is taken.
Close_Check(k, s) ==
    /\ sc[k].pc = "idle"
    /\ sstate[s] # "new"
    /\ sc' = [sc EXCEPT ![k] = [pc |-> IF IsOpen(s) THEN "act" ELSE "done", s |-> s]]
    /\ UNCHANGED <<sw, chanCloses, connCloses, stale, reaped>>
    /\ UNCHANGED <<regVars, evVars, opVars, subVars, ingVars, termVars, brVars, auxVars, mainVars>>

\* Session.close under the lock: open = false, conn.Close(), close(s.output).
\* Closing a channel that is already closed panics.
Close_Act(k) ==
    /\ sc[k].pc = "act"
    /\ LET s == sc[k].s IN
        /\ sstate' = [sstate EXCEPT ![s] = "closed"]
        /\ connCloses' = [connCloses EXCEPT ![s] = @ + 1]
        /\ IF chanCloses[s] > 0
           THEN /\ sc' = [sc EXCEPT ![k].pc = "panic"]
                /\ UNCHANGED chanCloses
           ELSE /\ sc' = [sc EXCEPT ![k].pc = "done"]
                /\ chanCloses' = [chanCloses EXCEPT ![s] = 1]
    /\ UNCHANGED <<sw, stale, reaped>>
    /\ UNCHANGED <<hub, output, wpExited, Devices, rp, fb, frames, regHist>>
    /\ UNCHANGED <<evVars, opVars, subVars, ingVars, termVars, brVars, auxVars, mainVars>>

\* MaxIdleSeconds pass without a packet from the session.
GoStale(s) ==
    /\ IsOpen(s)
    /\ ~stale[s]
    /\ stale' = [stale EXCEPT ![s] = TRUE]
    /\ UNCHANGED <<sw, sc, chanCloses, connCloses, reaped>>
    /\ UNCHANGED <<regVars, evVars, opVars, subVars, ingVars, termVars, brVars, auxVars, mainVars>>

\* wsHealthCheck, one 60-second tick: every session of the hub whose LastPack
\* is too old is queued, then Close() is called on each.
Reaper_Tick ==
    /\ \E s \in hub : stale[s] /\ ~reaped[s]
    /\ output' = [s \in Sessions |-> IF s \in hub /\ stale[s]
                                      THEN Close(output[s], IsOpen(s))
                                      ELSE output[s]]
    /\ reaped' = [s \in Sessions |-> reaped[s] \/ (s \in hub /\ stale[s])]
    /\ UNCHANGED <<sw, sc, chanCloses, connCloses, stale>>
    /\ UNCHANGED <<hub, sstate, wpExited, Devices, rp, fb, frames, regHist>>
    /\ UNCHANGED <<evVars, opVars, subVars, ingVars, termVars, brVars, auxVars, mainVars>>

\* ------------------------------------------------------------------ sub-sessions
SubKinds == {"terminal", "desktop"}

\* The sub-sessions IterSessions visits in the hub of one kind.
InSubHub(sb, kind) == {u \in SubIDs : sb[u].kind = kind /\ sb[u].st \in {"open", "closing"}}

\* terminal.CloseSessionsByDevice / desktop.CloseSessionsByDevice: the callback
\* queues the first session whose attachment has the device ID and returns
\* false, which ends the iteration; the queued session is then Close()d.
\* The possible results (the iteration order is arbitrary).
CloseSessionsByDevice(sb, kind, deviceID) ==
    LET found == {u \in InSubHub(sb, kind) : sb[u].device = deviceID} IN
    IF found = {} THEN {sb}
    ELSE {[sb EXCEPT ![u].st = "closing"] : u \in found}

\* wsOnDisconnect: common.Devices.Get(session.UUID) and the teardown it guards.
WsOnDisconnect_Get(s) ==
    /\ rp[s].pc = "disc"
    /\ rp' = [rp EXCEPT ![s] = [pc |-> "drop",
                                id |-> IF MapHas(Devices, s) THEN Devices[s] ELSE NoID,
                                ex |-> NoConn]]
    /\ IF MapHas(Devices, s)
       THEN \E sb \in CloseSessionsByDevice(subs, "terminal", Devices[s]) :
                subs' \in CloseSessionsByDevice(sb, "desktop", Devices[s])
       ELSE UNCHANGED subs
    /\ UNCHANGED <<hub, sstate, output, wpExited, Devices, fb, frames, regHist>>
    /\ UNCHANGED <<evVars, opVars, sesVars, ingVars, termVars, brVars, auxVars, mainVars>>

\* wsOnDisconnect: common.Devices.Remove(session.UUID).
WsOnDisconnect_Remove_ByID(s) ==
    /\ rp[s].pc = "drop"
    /\ Devices' = [u \in {v \in DOMAIN Devices : Devices[v] # rp[s].id /\ v # s} |-> Devices[u]]
    /\ rp' = [rp EXCEPT ![s] = [IdleH EXCEPT !.pc = "gone"]]
    /\ UNCHANGED <<hub, sstate, output, wpExited, fb, frames, regHist>>
    /\ UNCHANGED <<evVars, opVars>>
    /\ UNCHANGED extVars
WsOnDisconnect_Remove(s) ==
    /\ rp[s].pc = "drop"
    /\ Devices' = MapRemove(Devices, s)
    /\ rp' = [rp EXCEPT ![s] = [IdleH EXCEPT !.pc = "gone"]]
    /\ UNCHANGED <<hub, sstate, output, wpExited, fb, frames, regHist>>
    /\ UNCHANGED <<evVars, opVars>>
    /\ UNCHANGED extVars

\* ------------------------------------------------------------------ event correlator
NoReq == [endpoint |-> "none", conn |-> NoConn]
NoForm == [uuid |-> NoConn, device |-> NoID, known |-> FALSE, owners |-> {}, out |-> <<NoConn, FALSE>>]
IdleC == [pc |-> "idle", t |-> NoTrigger, s |-> NoConn, once |-> FALSE, code |-> 0]
IdleR == [pc |-> "idle", t |-> NoTrigger, ok |-> FALSE, once |-> FALSE]

\* utils.GetStrUUID: a trigger nobody has used yet.
Fresh(t) == t \notin used /\ t = Cardinality(used) + 1

\* CallEvent's session check: a supplied session must be the one recorded.
AffinityOK_NoCheck(session, connection) == TRUE
AffinityOK(session, connection) == ~(session # NoConn /\ session # connection)

\* CallEvent up to the callback: empty event, unknown trigger and foreign
\* session all return without calling.
CallEventFinds(evs, t, session) ==
    /\ t # NoTrigger
    /\ MapHas(evs, t)
    /\ AffinityOK(session, evs[t].connection)

\* The status an endpoint's callback writes for the device's reply.
CallbackStatus(code) == IF code # 0 THEN 500 ELSE 200

\* The three exits of AddEventOnce's select all run events.Remove(trigger).
ExitRemove_TimeoutKeeps(evs, t, src) == IF src = "timeout" THEN evs ELSE MapRemove(evs, t)
ExitRemove(evs, t, src) == MapRemove(evs, t)

\* AddEventOnce: build the event with its two channels and events.Set it.
InstallOnce(t, conn) ==
    /\ events' = MapSet(events, t, [connection |-> conn, once |-> TRUE])
    /\ evConn' = [evConn EXCEPT ![t] = conn]
    /\ wpc' = [wpc EXCEPT ![t] = "select"]

AddEventOnce_Set(t, conn) ==
    /\ Fresh(t)
    /\ used' = used \cup {t}
    /\ InstallOnce(t, conn)
    /\ UNCHANGED <<wsrc, wret, finClosed, remClosed, callers, removers, cbCount, cbLog, rmHit, calls>>
    /\ UNCHANGED <<regVars, opVars>>
    /\ UNCHANGED extVars

\* AddEvent: a persistent event, no channels.
AddEvent(t, conn) ==
    /\ Fresh(t)
    /\ used' = used \cup {t}
    /\ events' = MapSet(events, t, [connection |-> conn, once |-> FALSE])
    /\ evConn' = [evConn EXCEPT ![t] = conn]
    /\ UNCHANGED <<wpc, wsrc, wret, finClosed, remClosed, callers, removers, cbCount, cbLog, rmHit, calls>>
    /\ UNCHANGED <<regVars, opVars>>
    /\ UNCHANGED extVars

\* AddEventOnce's select, case <-ev.finish: rendezvous with a CallEvent that
\* stands at ev.finish <- true.
AddEventOnce_Finish(t, c) ==
    /\ wpc[t] = "select"
    /\ callers[c].pc = "send"
    /\ callers[c].t = t
    /\ wpc' = [wpc EXCEPT ![t] = "exit"]
    /\ wsrc' = [wsrc EXCEPT ![t] = "finish"]
    /\ wret' = [wret EXCEPT ![t] = TRUE]
    /\ callers' = [callers EXCEPT ![c] = IdleC]
    /\ UNCHANGED <<events, used, finClosed, remClosed, removers, cbCount, cbLog, evConn, rmHit, calls>>
    /\ UNCHANGED <<regVars, opVars>>
    /\ UNCHANGED extVars

\* AddEventOnce's select, case <-ev.remove: rendezvous with a RemoveEvent that
\* stands at ev.remove <- ok.
AddEventOnce_Remove(t, r) ==
    /\ wpc[t] = "select"
    /\ removers[r].pc = "send"
    /\ removers[r].t = t
    /\ wpc' = [wpc EXCEPT ![t] = "exit"]
    /\ wsrc' = [wsrc EXCEPT ![t] = "remove"]
    /\ wret' = [wret EXCEPT ![t] = removers[r].ok]
    /\ removers' = [removers EXCEPT ![r] = IdleR]
    /\ UNCHANGED <<events, used, finClosed, remClosed, callers, cbCount, cbLog, evConn, rmHit, calls>>
    /\ UNCHANGED <<regVars, opVars>>
    /\ UNCHANGED extVars

\* AddEventOnce's select, case <-time.After(timeout).
AddEventOnce_Timeout(t) ==
    /\ wpc[t] = "select"
    /\ wpc' = [wpc EXCEPT ![t] = "exit"]
    /\ wsrc' = [wsrc EXCEPT ![t] = "timeout"]
    /\ wret' = [wret EXCEPT ![t] = FALSE]
    /\ UNCHANGED <<events, used, finClosed, remClosed, callers, removers, cbCount, cbLog, evConn,
                   rmHit, calls>>
    /\ UNCHANGED <<regVars, opVars>>
    /\ UNCHANGED extVars

\* AddEventOnce after the select: events.Remove(trigger), then return.
AddEventOnce_Exit(t) ==
    /\ wpc[t] = "exit"
    /\ events' = ExitRemove(events, t, wsrc[t])
    /\ wpc' = [wpc EXCEPT ![t] = "close1"]
    /\ UNCHANGED <<used, wsrc, wret, finClosed, remClosed, callers, removers, cbCount, cbLog, evConn,
                   rmHit, calls>>
    /\ UNCHANGED <<regVars, opVars>>
    /\ UNCHANGED extVars

\* The deferred close(ev.finish), which runs first.
AddEventOnce_CloseFinish(t) ==
    /\ wpc[t] = "close1"
    /\ finClosed' = [finClosed EXCEPT ![t] = TRUE]
    /\ wpc' = [wpc EXCEPT ![t] = "close2"]
    /\ UNCHANGED <<events, used, wsrc, wret, remClosed, callers, removers, cbCount, cbLog, evConn,
                   rmHit, calls>>
    /\ UNCHANGED <<regVars, opVars>>
    /\ UNCHANGED extVars

\* The deferred close(ev.remove); AddEventOnce has returned.
AddEventOnce_CloseRemove(t) ==
    /\ wpc[t] = "close2"
    /\ remClosed' = [remClosed EXCEPT ![t] = TRUE]
    /\ wpc' = [wpc EXCEPT ![t] = "returned"]
    /\ UNCHANGED <<events, used, wsrc, wret, finClosed, callers, removers, cbCount, cbLog, evConn,
                   rmHit, calls>>
    /\ UNCHANGED <<regVars, opVars>>
    /\ UNCHANGED extVars

\* CallEvent: events.Get and the session check.
CallEvent_Get(c, t, session, code) ==
    /\ callers[c].pc = "idle"
    /\ calls[t] < MaxCalls
    /\ calls' = [calls EXCEPT ![t] = @ + 1]
    /\ callers' = IF CallEventFinds(events, t, session)
                  THEN [callers EXCEPT ![c] = [pc |-> "callback", t |-> t, s |-> session,
                                               once |-> events[t].once, code |-> code]]
                  ELSE callers
    /\ UNCHANGED <<events, used, wpc, wsrc, wret, finClosed, remClosed, removers, cbCount, cbLog,
                   evConn, rmHit>>

\* CallEvent: ev.callback(pack, session). An endpoint's callback writes the
\* operator's response (the first status written is the one sent).
CallEvent_Callback(c) ==
    /\ callers[c].pc = "callback"
    /\ LET t == callers[c].t IN
        /\ cbCount' = [cbCount EXCEPT ![t] = @ + 1]
        /\ cbLog' = cbLog \cup {<<t, callers[c].s>>}
        /\ resp' = [resp EXCEPT ![t] = IF req[t].endpoint # "none" /\ @ = 0
                                       THEN CallbackStatus(callers[c].code) ELSE @]
    /\ callers' = [callers EXCEPT ![c] = IF callers[c].once THEN [@ EXCEPT !.pc = "send"] ELSE IdleC]
    /\ UNCHANGED <<events, used, wpc, wsrc, wret, finClosed, remClosed, removers, evConn, rmHit, calls>>
    /\ UNCHANGED <<req, hpc, delivered, sentCmd, replied, okInTime, form>>
    /\ UNCHANGED regVars
    /\ UNCHANGED extVars

\* CallEvent: ev.finish <- true on a channel AddEventOnce has closed panics.
CallEvent_SendOnClosed(c) ==
    /\ callers[c].pc = "send"
    /\ finClosed[callers[c].t]
    /\ callers' = [callers EXCEPT ![c].pc = "panic"]
    /\ UNCHANGED <<events, used, wpc, wsrc, wret, finClosed, remClosed, removers, cbCount, cbLog,
                   evConn, rmHit, calls>>
    /\ UNCHANGED <<regVars, opVars>>
    /\ UNCHANGED extVars

\* RemoveEvent: events.Get.
RemoveEvent_Get(r, t, ok) ==
    /\ removers[r].pc = "idle"
    /\ MapHas(events, t)
    /\ removers' = [removers EXCEPT ![r] = [pc |-> "remove", t |-> t, ok |-> ok,
                                            once |-> events[t].once]]
    /\ UNCHANGED <<events, used, wpc, wsrc, wret, finClosed, remClosed, callers, cbCount, cbLog,
                   evConn, rmHit, calls>>
    /\ UNCHANGED <<regVars, opVars>>
    /\ UNCHANGED extVars

\* RemoveEvent: events.Remove(trigger); a one-shot event is then signalled.
RemoveEvent_Remove(r) ==
    /\ removers[r].pc = "remove"
    /\ events' = MapRemove(events, removers[r].t)
    /\ rmHit' = [rmHit EXCEPT ![removers[r].t] = TRUE]
    /\ removers' = [removers EXCEPT ![r] = IF removers[r].once THEN [@ EXCEPT !.pc = "send"] ELSE IdleR]
    /\ UNCHANGED <<used, wpc, wsrc, wret, finClosed, remClosed, callers, cbCount, cbLog, evConn, calls>>
    /\ UNCHANGED <<regVars, opVars>>
    /\ UNCHANGED extVars

\* RemoveEvent: ev.remove <- ok on a channel AddEventOnce has closed panics.
RemoveEvent_SendOnClosed(r) ==
    /\ removers[r].pc = "send"
    /\ remClosed[removers[r].t]
    /\ removers' = [removers EXCEPT ![r].pc = "panic"]
    /\ UNCHANGED <<events, used, wpc, wsrc, wret, finClosed, remClosed, callers, cbCount, cbLog,
                   evConn, rmHit, calls>>
    /\ UNCHANGED <<regVars, opVars>>
    /\ UNCHANGED extVars

\* ------------------------------------------------------------------ operator endpoints
\* The command endpoints built on AddEventOnce.
Endpoints == {"ListDeviceProcesses", "KillDeviceProcess", "ExecDeviceCmd", "CallDevice",
              "RemoveDeviceFiles", "ListDeviceFiles"}

\* utility.CheckForm: the status it aborts with, or 0 when it lets the request pass.
CheckFormStatus(uuid, device, out) ==
    IF uuid = NoConn /\ device = NoID THEN 400
    ELSE IF ~out[2] THEN 502
    ELSE 0

\* What a handler writes when AddEventOnce returns false.
TimeoutStatus_All504(endpoint) == 504
TimeoutStatus(endpoint) == IF endpoint = "CallDevice" THEN 200 ELSE 504

\* A handler up to its trigger: CheckForm, then utils.GetStrUUID.
Handler_CheckForm(t, endpoint, uuid, device) ==
    /\ Fresh(t)
    /\ t <= MaxRequests
    /\ used' = used \cup {t}
    /\ \E out \in CheckDevice(Devices, device, uuid) :
        LET status == CheckFormStatus(uuid, device, out) IN
        /\ form' = [form EXCEPT ![t] = [uuid |-> uuid, device |-> device,
                                        known |-> MapHas(Devices, uuid),
                                        owners |-> Matches(Devices, device),
                                        out |-> out]]
        /\ req' = [req EXCEPT ![t] = [endpoint |-> endpoint,
                                      conn |-> IF status = 0 THEN out[1] ELSE NoConn]]
        /\ resp' = [resp EXCEPT ![t] = status]
        /\ hpc' = [hpc EXCEPT ![t] = IF status = 0 THEN "send" ELSE "done"]
    /\ UNCHANGED <<delivered, sentCmd, replied, okInTime>>
    /\ UNCHANGED <<events, wpc, wsrc, wret, finClosed, remClosed, callers, removers, cbCount, cbLog,
                   evConn, rmHit, calls>>
    /\ UNCHANGED regVars
    /\ UNCHANGED extVars

\* common.SendPackByUUID(pack{Event: trigger}, connUUID): the packet goes to the
\* session the hub holds under that UUID, if any.
Handler_Send(t) ==
    /\ hpc[t] = "send"
    /\ LET conn == req[t].conn IN
       IF conn \in hub
       THEN /\ output' = [output EXCEPT ![conn] = WriteMessage(@, IsOpen(conn), CmdEnv(t))]
            /\ sentCmd' = [sentCmd EXCEPT ![t] = Enqueued(output[conn], IsOpen(conn))]
       ELSE UNCHANGED <<output, sentCmd>>
    /\ hpc' = [hpc EXCEPT ![t] = "install"]
    /\ UNCHANGED <<hub, sstate, wpExited, Devices, rp, fb, frames, regHist>>
    /\ UNCHANGED <<req, resp, delivered, replied, okInTime, form>>
    /\ UNCHANGED evVars
    /\ UNCHANGED extVars

\* The handler enters AddEventOnce, which installs the event.
Handler_Install(t) ==
    /\ hpc[t] = "install"
    /\ InstallOnce(t, req[t].conn)
    /\ hpc' = [hpc EXCEPT ![t] = "wait"]
    /\ UNCHANGED <<used, wsrc, wret, finClosed, remClosed, callers, removers, cbCount, cbLog, rmHit, calls>>
    /\ UNCHANGED <<req, resp, delivered, sentCmd, replied, okInTime, form>>
    /\ UNCHANGED regVars
    /\ UNCHANGED extVars

\* AddEventOnce has returned: on false the handler writes its timeout answer
\* (the first status written is the one the operator gets).
Handler_Respond(t) ==
    /\ hpc[t] = "wait"
    /\ wpc[t] = "returned"
    /\ resp' = [resp EXCEPT ![t] = IF ~wret[t] /\ @ = 0 THEN TimeoutStatus(req[t].endpoint) ELSE @]
    /\ hpc' = [hpc EXCEPT ![t] = "done"]
    /\ UNCHANGED <<req, delivered, sentCmd, replied, okInTime, form>>
    /\ UNCHANGED <<regVars, evVars>>
    /\ UNCHANGED extVars

\* The device that was written the command answers it; wsOnMessageBinary passes
\* the packet of a registered session to CallEvent.
DeviceReply_CallEvent(c, s, t, code) ==
    /\ CanStart("ws", s)
    /\ delivered[t] = s
    /\ replied[t] = {}
    /\ MapHas(Devices, s)
    /\ CallEvent_Get(c, t, s, code)
    /\ frames' = [frames EXCEPT ![s] = @ + 1]
    /\ replied' = [replied EXCEPT ![t] = {code}]
    /\ okInTime' = [okInTime EXCEPT ![t] = (code = 0 /\ wsrc[t] # "timeout")]
    /\ UNCHANGED <<hub, sstate, output, wpExited, Devices, rp, fb, regHist>>
    /\ UNCHANGED <<req, hpc, resp, delivered, sentCmd, form>>
    /\ UNCHANGED extVars

\* wsOnMessageBinary on a session that is not in the registry: CloseWithMsg(1001).
DeviceReply_NotRegistered(s, t, code) ==
    /\ CanStart("ws", s)
    /\ delivered[t] = s
    /\ replied[t] = {}
    /\ ~MapHas(Devices, s)
    /\ output' = [output EXCEPT ![s] = Close(@, IsOpen(s))]
    /\ frames' = [frames EXCEPT ![s] = @ + 1]
    /\ replied' = [replied EXCEPT ![t] = {code}]
    /\ UNCHANGED <<hub, sstate, wpExited, Devices, rp, fb, regHist>>
    /\ UNCHANGED <<req, hpc, resp, delivered, sentCmd, okInTime, form>>
    /\ UNCHANGED evVars
    /\ UNCHANGED extVars

\* ------------------------------------------------------------------ ingress (device hub)
\* Frames as wsOnMessageBinary sees them: whether the first four bytes are the
\* magic, the length, byte 4 (service), byte 5 (op), bytes 6..21 (id), and
\* whether the frame decrypts and unmarshals to a packet (whose act is then
\* neither DEVICE_UP nor DEVICE_UPDATE, and whose event is trigger ev).
HexDigits == <<"0", "1", "2", "3", "4", "5", "6", "7", "8", "9", "a", "b", "c", "d", "e", "f">>

\* hex.EncodeToString: two digits per byte, high nibble first.
HexEncodeToString(b) ==
    [i \in 1..(2 * Len(b)) |->
        IF i % 2 = 1 THEN HexDigits[(b[(i + 1) \div 2] \div 16) + 1]
                     ELSE HexDigits[(b[i \div 2] % 16) + 1]]

\* The random bytes behind trigger t (two stand for the sixteen), and
\* utils.GetStrUUID: the trigger is their hex string.
UUIDBytes(t) == <<t, 255 - t>>
GetStrUUID(t) == HexEncodeToString(UUIDBytes(t))

\* The trigger a packet's event string names, if any.
TriggerNamed(str) ==
    IF \E t \in Triggers : GetStrUUID(t) = str
    THEN CHOOSE t \in Triggers : GetStrUUID(t) = str
    ELSE NoTrigger

BinaryFrames ==
    [magic : {TRUE}, len : {25}, service : {20, 21}, op : 0..3,
     id : {UUIDBytes(t) : t \in Triggers}, valid : {FALSE}, ev : {NoTrigger}]
HeaderOnlyFrames ==
    [magic : {TRUE}, len : {7, 24}, service : {20, 21}, op : {0},
     id : {UUIDBytes(1)}, valid : {FALSE}, ev : {NoTrigger}]
OtherServiceFrames ==
    [magic : {TRUE}, len : {25}, service : {22}, op : {0},
     id : {UUIDBytes(1)}, valid : {FALSE}, ev : {NoTrigger}]
JSONFrames ==
    [magic : {FALSE}, len : {25}, service : {0}, op : {0}, id : {UUIDBytes(1)},
     valid : {TRUE}, ev : Triggers]
UnreadableFrames ==
    [magic : {FALSE}, len : {25}, service : {0}, op : {0}, id : {UUIDBytes(1)},
     valid : {FALSE}, ev : {NoTrigger}]
Frames ==
    BinaryFrames \cup HeaderOnlyFrames \cup OtherServiceFrames \cup JSONFrames
        \cup UnreadableFrames
NoIn == [s |-> NoConn, f |-> CHOOSE f \in JSONFrames : TRUE, out |-> "none"]

\* utils.CheckBinaryPack.
CheckBinaryPack_MagicOnly(f) ==
    IF f.magic THEN <<f.service, f.op, TRUE>> ELSE <<0, 0, FALSE>>
CheckBinaryPack(f) ==
    IF f.len >= 8 /\ f.magic /\ (f.service = 20 \/ f.service = 21)
    THEN <<f.service, f.op, TRUE>>
    ELSE <<0, 0, FALSE>>

\* wsOnMessageBinary's switch on service and op: the frames it hands on.
RawRouted_AllOps(service, op) == service \in {20, 21} /\ op \in 0..3
RawRouted(service, op) ==
    \/ service = 20 /\ op \in {0, 1, 2, 3}
    \/ service = 21 /\ op \in {0, 1}

\* Which branch of wsOnMessageBinary a frame takes on session s.
Branch(s, f) ==
    LET b == CheckBinaryPack(f) IN
    IF f.len > 24 /\ b[3]
    THEN IF RawRouted(b[1], b[2]) THEN "raw" ELSE "ignored"
    ELSE IF ~f.valid THEN "bad"
    ELSE IF ~MapHas(Devices, s) THEN "invalid_id"
    ELSE "dispatch"

\* wsOnMessageBinary for every frame but DEVICE_UP / DEVICE_UPDATE.
WsOnMessageBinary(s, f, c) ==
    /\ CanStart("ws", s)
    /\ \A b \in Callers : b < c => callers[b].pc # "idle"
    /\ frames' = [frames EXCEPT ![s] = @ + 1]
    /\ lastIn' = [s |-> s, f |-> f, out |-> Branch(s, f)]
    /\ CASE Branch(s, f) = "raw" ->
              /\ CallEvent_Get(c, TriggerNamed(HexEncodeToString(f.id)), s, 0)
              /\ UNCHANGED <<output, stale>>
         [] Branch(s, f) = "ignored" ->
              /\ UNCHANGED <<evVars, output, stale>>
         [] Branch(s, f) = "bad" ->
              /\ output' = [output EXCEPT ![s] =
                               Close(SendPack(@, IsOpen(s)), IsOpen(s))]
              /\ UNCHANGED <<evVars, stale>>
         [] Branch(s, f) = "invalid_id" ->
              /\ output' = [output EXCEPT ![s] = Close(@, IsOpen(s))]
              /\ UNCHANGED <<evVars, stale>>
         [] Branch(s, f) = "dispatch" ->
              /\ CallEvent_Get(c, f.ev, s, 0)
              /\ stale' = [stale EXCEPT ![s] = FALSE]
              /\ UNCHANGED output
    /\ UNCHANGED <<hub, sstate, wpExited, Devices, rp, fb, regHist>>
    /\ UNCHANGED <<sw, sc, chanCloses, connCloses, reaped>>
    /\ UNCHANGED <<opVars, subVars, termVars, brVars, auxVars, mainVars>>

\* pingDevice: SendPack(PING, event = trigger), then AddEventOnce for the reply.
PingDevice_Do(s, t) ==
    /\ s \in hub
    /\ Fresh(t)
    /\ used' = used \cup {t}
    /\ output' = [output EXCEPT ![s] = SendPack(@, IsOpen(s))]
    /\ InstallOnce(t, s)
    /\ UNCHANGED <<wsrc, wret, finClosed, remClosed, callers, removers, cbCount, cbLog, rmHit, calls>>
    /\ UNCHANGED <<hub, sstate, wpExited, Devices, rp, fb, frames, regHist>>

PingDevice(s, t) ==
    /\ PingDevice_Do(s, t)
    /\ UNCHANGED <<opVars, extVars>>

\* ------------------------------------------------------------------ sub-session handlers
\* Envelopes on a sub-session's queue: sendPack's packets and close messages,
\* with what they carry.
CodeReply == [kind |-> "msg", payload |-> "code:-1"]
DeviceData == [kind |-> "msg", payload |-> "data"]
PlainClose == [kind |-> "close", payload |-> "empty"]
InvalidRequestClose == [kind |-> "close", payload |-> "invalid request"]

\* The close message onTerminalMessage's rejections enqueue: Session.Close()
\* writes a close envelope with an empty payload.
RejectClose == PlainClose

\* common.RemoveEvent on an event without channels: events.Get, events.Remove.
RemoveEventNow_Keep(evs, t) == evs
RemoveEventNow(evs, t) == IF MapHas(evs, t) THEN MapRemove(evs, t) ELSE evs

\* onTerminalConnect / onDesktopConnect: the operator's websocket names a device
\* ID; CheckDevice(device, ``) scans for it, GetSessionByUUID finds the device
\* session, the attachment records both under a fresh UUID, AddEvent installs
\* the wrapper under that UUID and TERMINAL_INIT / DESKTOP_INIT is sent to the
\* device.
OnSubConnect(u, kind, id) ==
    /\ subs[u].st = "none"
    /\ \A v \in SubIDs : v < u => subs[v].st # "none"
    /\ \E out \in CheckDevice(Devices, id, NoConn), t \in Triggers :
        /\ out[2]
        /\ out[1] \in hub
        /\ Fresh(t)
        /\ used' = used \cup {t}
        /\ subs' = [subs EXCEPT ![u] = [st |-> "open", kind |-> kind, device |-> id,
                                        conn |-> out[1], uuid |-> t]]
        /\ events' = MapSet(events, t, [connection |-> out[1], once |-> FALSE])
        /\ evConn' = [evConn EXCEPT ![t] = out[1]]
        /\ output' = [output EXCEPT ![out[1]] = SendPack(@, IsOpen(out[1]))]
    /\ subIdle' = [subIdle EXCEPT ![u] = 0]
    /\ UNCHANGED <<wpc, wsrc, wret, finClosed, remClosed, callers, removers, cbCount, cbLog,
                   rmHit, calls>>
    /\ UNCHANGED <<hub, sstate, wpExited, Devices, rp, fb, frames, regHist>>
    /\ UNCHANGED <<opVars, sesVars, ingVars, brVars, auxVars, mainVars, subOut, subTick, lastOp>>

\* onTerminalDisconnect / onDesktopDisconnect: TERMINAL_KILL to the device,
\* RemoveEvent(uuid), and the attachment is cleared.
OnSubDisconnect(u) ==
    /\ output' = [output EXCEPT ![subs[u].conn] = SendPack(@, IsOpen(subs[u].conn))]
    /\ events' = RemoveEventNow(events, subs[u].uuid)
    /\ subs' = [subs EXCEPT ![u].st = "gone"]
    /\ subOut' = [subOut EXCEPT ![u] = <<>>]
    /\ UNCHANGED <<used, wpc, wsrc, wret, finClosed, remClosed, callers, removers, cbCount,
                   cbLog, evConn, rmHit, calls>>
    /\ UNCHANGED <<hub, sstate, wpExited, Devices, rp, fb, frames, regHist>>
    /\ UNCHANGED <<opVars, sesVars, ingVars, brVars, auxVars, mainVars, subIdle, subTick, lastOp>>

\* The operator's side goes away: the sub-session leaves its hub and its
\* disconnect handler runs.
SubDisconnect(u) ==
    /\ subs[u].st = "open"
    /\ OnSubDisconnect(u)

\* A sub-session that was Close()d is written its close frame, leaves its hub
\* and its disconnect handler runs.
SubClosed(u) ==
    /\ subs[u].st = "closing"
    /\ OnSubDisconnect(u)

\* Operator frames as onTerminalMessage sees them: the binary header and, for
\* op 1, what the body decrypts to.
RawInputFrames ==
    [magic : {TRUE}, len : {25}, service : {21}, op : {0, 2}, body : {"raw"}]
ControlFrames ==
    [magic : {TRUE}, len : {25}, service : {21}, op : {1},
     body : {"malformed", "TERMINAL_INPUT", "PING", "OTHER"}]
ForeignFrames ==
    [magic : {TRUE, FALSE}, len : {25}, service : {20}, op : {0}, body : {"raw"}]
OpFrames == RawInputFrames \cup ControlFrames \cup ForeignFrames
TerminalActs == {"TERMINAL_INPUT", "TERMINAL_RESIZE", "TERMINAL_KILL", "PING"}
NoOp == [u |-> 0, f |-> CHOOSE f \in ForeignFrames : TRUE, n |-> 0]

\* Which way onTerminalMessage takes a frame.
TermBranch(f) ==
    LET b == CheckBinaryPack(f) IN
    IF ~b[3] \/ b[1] # 21 THEN "reject"
    ELSE IF b[2] = 0 THEN "raw"
    ELSE IF b[2] # 1 THEN "reject"
    ELSE IF f.body = "malformed" THEN "reject"
    ELSE IF f.body \in TerminalActs THEN "forward"
    ELSE "close"

\* onTerminalMessage.
OnTerminalMessage(u, f) ==
    /\ subs[u].st = "open"
    /\ subs[u].kind = "terminal"
    /\ lastOp.n < MaxFrames
    /\ lastOp' = [u |-> u, f |-> f, n |-> lastOp.n + 1]
    /\ LET conn == subs[u].conn IN
       CASE TermBranch(f) = "reject" ->
              /\ subOut' = [subOut EXCEPT ![u] =
                              WriteMessage(WriteMessage(@, TRUE, CodeReply), TRUE, RejectClose)]
              /\ UNCHANGED <<output, subIdle>>
         [] TermBranch(f) = "close" ->
              /\ subOut' = [subOut EXCEPT ![u] = WriteMessage(@, TRUE, PlainClose)]
              /\ subIdle' = [subIdle EXCEPT ![u] = 0]
              /\ UNCHANGED output
         [] TermBranch(f) \in {"raw", "forward"} ->
              /\ output' = [output EXCEPT ![conn] = SendPack(@, IsOpen(conn))]
              /\ subIdle' = [subIdle EXCEPT ![u] = 0]
              /\ UNCHANGED subOut
    /\ subs' = [subs EXCEPT ![u].st =
                   IF \E i \in 1..Len(subOut'[u]) : subOut'[u][i].kind = "close"
                   THEN "closing" ELSE @]
    /\ UNCHANGED <<hub, sstate, wpExited, Devices, rp, fb, frames, regHist>>
    /\ UNCHANGED <<evVars, opVars, sesVars, ingVars, brVars, auxVars, mainVars, subTick>>

\* terminalEventWrapper / desktopEventWrapper, called by CallEvent for a frame
\* the device tagged with the sub-session's UUID. Output is written to the
\* operator; on TERMINAL_QUIT / DESKTOP_QUIT or an INIT reply with a non-zero
\* code the wrapper sends QUIT, calls RemoveEvent(uuid) and Close()s the
\* operator's session.
TerminalEventWrapper(u, act) ==
    /\ subs[u].st \in {"open", "closing"}
    /\ MapHas(events, subs[u].uuid)
    /\ events[subs[u].uuid].connection = subs[u].conn
    /\ IF act = "QUIT"
       THEN /\ subOut' = [subOut EXCEPT ![u] =
                             WriteMessage(WriteMessage(@, TRUE, DeviceData), TRUE, PlainClose)]
            /\ events' = RemoveEventNow(events, subs[u].uuid)
       ELSE /\ subOut' = [subOut EXCEPT ![u] = WriteMessage(@, TRUE, DeviceData)]
            /\ UNCHANGED events
    /\ subs' = [subs EXCEPT ![u].st =
                   IF \E i \in 1..Len(subOut'[u]) : subOut'[u][i].kind = "close"
                   THEN "closing" ELSE @]
    /\ UNCHANGED <<used, wpc, wsrc, wret, finClosed, remClosed, callers, removers, cbCount,
                   cbLog, evConn, rmHit, calls>>
    /\ UNCHANGED <<regVars, opVars, sesVars, ingVars, brVars, auxVars, mainVars, subIdle, subTick, lastOp>>

\* The sub-session's writePump writes the next envelope to the operator.
SubWritePump(u) ==
    /\ subs[u].st \in {"open", "closing"}
    /\ Len(subOut[u]) > 0
    /\ Head(subOut[u]).kind # "close"
    /\ subOut' = [subOut EXCEPT ![u] = Tail(@)]
    /\ UNCHANGED <<regVars, evVars, opVars, subVars, sesVars, ingVars, brVars, auxVars, mainVars, subIdle, subTick, lastOp>>

\* Ten seconds pass; the health check's ticker fires before more time passes.
AdvanceTime ==
    /\ subTick < SubTickSeconds
    /\ \A u \in SubIDs : subIdle[u] < MaxIdleSeconds + 2 * SubTickSeconds
    /\ subTick' = subTick + 10
    /\ subIdle' = [u \in SubIDs |-> IF subs[u].st \in {"open", "closing"}
                                    THEN subIdle[u] + 10 ELSE subIdle[u]]
    /\ UNCHANGED <<regVars, evVars, opVars, subVars, sesVars, ingVars, brVars, auxVars, mainVars, subOut, lastOp>>

\* utility.WSHealthCheck, one tick: each session of the hub is pinged, and
\* those whose LastPack is more than MaxIdleSeconds old are Close()d.
WSHealthCheck_Tick ==
    /\ subTick = SubTickSeconds
    /\ subTick' = 0
    /\ subOut' = [u \in SubIDs |->
                    IF subs[u].st \in {"open", "closing"}
                    THEN LET pinged == WriteMessage(subOut[u], TRUE, DeviceData) IN
                         IF subIdle[u] > MaxIdleSeconds
                         THEN WriteMessage(pinged, TRUE, PlainClose)
                         ELSE pinged
                    ELSE subOut[u]]
    /\ subs' = [u \in SubIDs |->
                    IF /\ subs[u].st = "open"
                       /\ \E i \in 1..Len(subOut'[u]) : subOut'[u][i].kind = "close"
                    THEN [subs[u] EXCEPT !.st = "closing"] ELSE subs[u]]
    /\ UNCHANGED <<regVars, evVars, opVars, sesVars, ingVars, brVars, auxVars, mainVars, subIdle, lastOp>>

\* ------------------------------------------------------------------ bridges
NoBridge == [made |-> FALSE, using |-> FALSE, src |-> FALSE, dst |-> FALSE, age |-> 0]
IdleB == [pc |-> "idle", kind |-> "none", b |-> 0, resp |-> 0, sawUsing |-> FALSE,
          afterRemove |-> FALSE]
NoHist == [passed |-> 0, spliced |-> "none", finished |-> 0, removed |-> FALSE]

\* CheckBridge: bridges.Get(form.Bridge).
BridgeFound_Always(tbl, b) == TRUE
BridgeFound(tbl, b) == b \in tbl

\* BridgePush / BridgePull, under the bridge's lock: the in-use check.
InUse_BothSidesOnly(o) == o.src /\ o.dst
InUse(o) == o.using \/ (o.src /\ o.dst)

\* How often OnFinish has been invoked once the splice's caller invokes it.
OnFinishInvoked_Again(n) == n + 2
OnFinishInvoked(n) == n + 1

\* AddBridge / AddBridgeWithSrc / AddBridgeWithDst under a fresh UUID.
AddBridge(b, with) ==
    /\ ~gc.panicked
    /\ ~bobj[b].made
    /\ \A a \in BridgeIDs : a < b => bobj[a].made
    /\ bobj' = [bobj EXCEPT ![b] = [made |-> TRUE, using |-> FALSE, src |-> (with = "src"),
                                    dst |-> (with = "dst"), age |-> 0]]
    /\ bridges' = bridges \cup {b}
    /\ UNCHANGED <<breq, gc, bhist>>
    /\ UNCHANGED <<regVars, evVars, opVars, subVars, sesVars, ingVars, termVars, mainVars, auxVars>>

\* RemoveBridge: Get, Remove, close the source body and drop both sides.
RemoveBridgeEffect(b) ==
    /\ bridges' = bridges \ {b}
    /\ bobj' = IF b \in bridges
               THEN [bobj EXCEPT ![b].src = FALSE, ![b].dst = FALSE]
               ELSE bobj

\* A handler gives the transfer up (device not reachable, timeout) and calls
\* RemoveBridge.
RemoveBridge(b) ==
    /\ ~gc.panicked
    /\ bobj[b].made
    /\ ~bhist[b].removed
    /\ RemoveBridgeEffect(b)
    /\ bhist' = [bhist EXCEPT ![b].removed = TRUE]
    /\ UNCHANGED <<breq, gc>>
    /\ UNCHANGED <<regVars, evVars, opVars, subVars, sesVars, ingVars, termVars, mainVars, auxVars>>

\* BridgePush / BridgePull: CheckBridge; an unknown UUID is answered 400.
Bridge_Check(r, kind, b) ==
    /\ ~gc.panicked
    /\ breq[r].pc = "idle"
    /\ \A q \in BridgeReqs : q < r => breq[q].pc # "idle"
    /\ bobj[b].made
    /\ breq' = [breq EXCEPT ![r] =
                  IF BridgeFound(bridges, b)
                  THEN [pc |-> "lock", kind |-> kind, b |-> b, resp |-> 0, sawUsing |-> FALSE,
                        afterRemove |-> bhist[b].removed]
                  ELSE [pc |-> "done", kind |-> kind, b |-> b, resp |-> 400, sawUsing |-> FALSE,
                        afterRemove |-> bhist[b].removed]]
    /\ UNCHANGED <<bridges, bobj, gc, bhist>>
    /\ UNCHANGED <<regVars, evVars, opVars, subVars, sesVars, ingVars, termVars, mainVars, auxVars>>

\* BridgePush / BridgePull, with the lock held: the in-use check answers 400,
\* or the request attaches its side and marks the bridge in use.
Bridge_Mark(r) ==
    /\ ~gc.panicked
    /\ breq[r].pc = "lock"
    /\ LET b == breq[r].b IN
       IF InUse(bobj[b])
       THEN /\ breq' = [breq EXCEPT ![r].pc = "done", ![r].resp = 400,
                                    ![r].sawUsing = bobj[b].using]
            /\ UNCHANGED <<bobj, bhist>>
       ELSE /\ bobj' = [bobj EXCEPT ![b].using = TRUE,
                                    ![b].src = IF breq[r].kind = "push" THEN TRUE ELSE @,
                                    ![b].dst = IF breq[r].kind = "pull" THEN TRUE ELSE @]
            /\ bhist' = [bhist EXCEPT ![b].passed = @ + 1]
            /\ breq' = [breq EXCEPT ![r].pc = "hook", ![r].sawUsing = bobj[b].using]
    /\ UNCHANGED <<bridges, gc>>
    /\ UNCHANGED <<regVars, evVars, opVars, subVars, sesVars, ingVars, termVars, mainVars, auxVars>>

\* BridgePush / BridgePull after OnPush / OnPull: with the other side attached
\* the body is copied (completely, or until a read or write fails); without
\* it the handler returns.
Bridge_Splice(r, ok) ==
    /\ ~gc.panicked
    /\ breq[r].pc = "hook"
    /\ LET b == breq[r].b
           other == IF breq[r].kind = "push" THEN bobj[b].dst ELSE bobj[b].src IN
       IF other
       THEN /\ breq' = [breq EXCEPT ![r].pc = "finish"]
            /\ bhist' = [bhist EXCEPT ![b].spliced = IF ok THEN "ok" ELSE "fail"]
       ELSE /\ breq' = [breq EXCEPT ![r].pc = "done", ![r].resp = 200]
            /\ UNCHANGED bhist
    /\ UNCHANGED <<bridges, bobj, gc>>
    /\ UNCHANGED <<regVars, evVars, opVars, subVars, sesVars, ingVars, termVars, mainVars, auxVars>>

\* BridgePush / BridgePull after the copy: Status(200), OnFinish, RemoveBridge.
Bridge_Finish(r) ==
    /\ ~gc.panicked
    /\ breq[r].pc = "finish"
    /\ LET b == breq[r].b IN
        /\ bhist' = [bhist EXCEPT ![b].finished = OnFinishInvoked(@), ![b].removed = TRUE]
        /\ RemoveBridgeEffect(b)
    /\ breq' = [breq EXCEPT ![r].pc = "done", ![r].resp = 200]
    /\ UNCHANGED gc
    /\ UNCHANGED <<regVars, evVars, opVars, subVars, sesVars, ingVars, termVars, mainVars, auxVars>>

\* Ages beyond BridgeMaxAge by two ticks are kept as that age: the sweep only
\* compares an age with BridgeMaxAge.
AgeCap(a) == IF a > BridgeMaxAge + 2 * SweepSeconds THEN BridgeMaxAge + 2 * SweepSeconds ELSE a

\* SweepSeconds pass; the sweep's ticker fires before more time passes.
Bridge_Time ==
    /\ ~gc.panicked
    /\ ~gc.due
    /\ bobj' = [b \in BridgeIDs |-> IF bobj[b].made /\ b \in bridges
                                    THEN [bobj[b] EXCEPT !.age = AgeCap(@ + SweepSeconds)]
                                    ELSE bobj[b]]
    /\ gc' = [gc EXCEPT !.due = TRUE]
    /\ UNCHANGED <<bridges, breq, bhist>>
    /\ UNCHANGED <<regVars, evVars, opVars, subVars, sesVars, ingVars, termVars, mainVars, auxVars>>

\* bridge.init, one tick of the sweep: for a bridge that is old and not in use
\* the callback drops both sides, sets b = nil and then reads b.uuid, a nil
\* dereference that panics before bridges.Remove(queue...) is reached.
Bridge_Sweep ==
    /\ ~gc.panicked
    /\ gc.due
    /\ LET old == {b \in bridges : bobj[b].age > BridgeMaxAge /\ ~bobj[b].using} IN
       IF old = {}
       THEN /\ gc' = [gc EXCEPT !.due = FALSE, !.sweeps = 1]
            /\ UNCHANGED bobj
       ELSE \E b \in old :
            /\ bobj' = [bobj EXCEPT ![b].src = FALSE, ![b].dst = FALSE]
            /\ gc' = [due |-> FALSE, panicked |-> TRUE, sweeps |-> 1]
    /\ UNCHANGED <<bridges, breq, bhist>>
    /\ UNCHANGED <<regVars, evVars, opVars, subVars, sesVars, ingVars, termVars, mainVars, auxVars>>

\* ------------------------------------------------------------------ device handshake
\* Byte strings are kept as [len, val]: their length and a two-bit content.
Bytes == 0..3
UUIDLen == 16
KeyLen == 32
MD5Len == 16
SaltBytes == 1

\* utils.GetMD5 on the contents: a digest of MD5Len bytes.
GetMD5(v) == (3 * v + 1) % 4

\* XORKeyStream on the contents, bit by bit.
XORKeyStream(a, b) == (((a % 2) + (b % 2)) % 2) + 2 * (((a \div 2) + (b \div 2)) % 2)

\* cipher.NewCTR(aes.NewCipher(key), iv): the key stream for a key and an IV.
NewCTR(key, iv) == (key + 2 * iv + 3 * key * iv + 1) % 4

\* EncAES: MD5(data) followed by data XOR the stream keyed by key, IV = MD5(data).
EncAES(data, key) ==
    LET hash == GetMD5(data.val) IN
    [len |-> MD5Len + data.len, iv |-> hash,
     body |-> XORKeyStream(data.val, NewCTR(key, hash))]

\* DecAES: the first MD5Len bytes are the IV and the digest the decrypted
\* rest must have.
DecAES(data, key) ==
    IF data.len <= MD5Len
    THEN [ok |-> FALSE, len |-> 0, val |-> 0]
    ELSE LET dec == XORKeyStream(data.body, NewCTR(key, data.iv)) IN
         IF GetMD5(dec) # data.iv
         THEN [ok |-> FALSE, len |-> 0, val |-> 0]
         ELSE [ok |-> TRUE, len |-> data.len - MD5Len, val |-> dec]

\* What a device may present in the UUID and Key headers.
PresentedUUIDs == [len : {UUIDLen - 1, UUIDLen}, val : Bytes]
PresentedKeys == [len : {MD5Len, KeyLen, KeyLen + 1}, iv : Bytes, body : Bytes]

\* wsHandshake: err != nil || !bytes.Equal(decrypted, clientUUID) rejects.
KeyAccepted_NoCompare(uuid, key) == DecAES(key, SaltBytes).ok
KeyAccepted(uuid, key) ==
    LET decrypted == DecAES(key, SaltBytes) IN
    decrypted.ok /\ decrypted.len = uuid.len /\ decrypted.val = uuid.val

NoHandshake == [kind |-> "none", uuid |-> [len |-> 0, val |-> 0],
                key |-> [len |-> 0, iv |-> 0, body |-> 0], resp |-> 0, created |-> FALSE]

\* wsHandshake on a websocket upgrade request. upgraded is whether
\* HandleRequestWithKeys could upgrade the connection.
WsHandshake(uuid, key, upgraded) ==
    /\ hs' = IF uuid.len # UUIDLen \/ key.len # KeyLen
             THEN [kind |-> "upgrade", uuid |-> uuid, key |-> key, resp |-> 401, created |-> FALSE]
             ELSE IF ~KeyAccepted(uuid, key)
             THEN [kind |-> "upgrade", uuid |-> uuid, key |-> key, resp |-> 401, created |-> FALSE]
             ELSE IF ~upgraded
             THEN [kind |-> "upgrade", uuid |-> uuid, key |-> key, resp |-> 400, created |-> FALSE]
             ELSE [kind |-> "upgrade", uuid |-> uuid, key |-> key, resp |-> 101, created |-> TRUE]
    /\ UNCHANGED <<regVars, evVars, opVars, subVars, sesVars, ingVars, termVars, brVars, auxVars, pl, sd>>

\* wsHandshake on a plain HTTP request: the body is handed to the session
\* that owns the presented Secret; no session is created.
WsHandshake_Plain(tooLarge, readable, known) ==
    /\ hs' = [NoHandshake EXCEPT !.kind = "plain",
                                 !.resp = IF tooLarge THEN 413
                                          ELSE IF ~readable THEN 400
                                          ELSE IF ~known THEN 401 ELSE 200]
    /\ UNCHANGED <<regVars, evVars, opVars, subVars, sesVars, ingVars, termVars, brVars, auxVars, pl, sd>>

\* ------------------------------------------------------------------ ping loop
PingTickSeconds == 3
MaxPingInterval == 60
Least(a, b) == IF a < b THEN a ELSE b

\* Seconds are counted up to a cap above every value tick can take.
ClockCap == MaxPingInterval + 2 * PingTickSeconds

\* wsHealthCheck: tick >= utils.Unix - lastRequest puts pingInterval back to 3.
ResetDue_Never(tick, sinceRequest) == FALSE
ResetDue(tick, sinceRequest) == tick >= sinceRequest

\* wsHealthCheck: pingInterval += 3, at most MaxPingInterval.
NextPingInterval(pingInterval) == Least(pingInterval + PingTickSeconds, MaxPingInterval)

\* One second passes: utils.Unix advances, and every third second the ping
\* loop's ticker fires; the loop body runs before the next second.
Second ==
    /\ ~pl.due
    /\ pl' = [pl EXCEPT !.phase = (@ + 1) % PingTickSeconds,
                        !.due = ((pl.phase + 1) % PingTickSeconds = 0),
                        !.sinceRequest = Least(@ + 1, ClockCap),
                        !.sinceRound = Least(@ + 1, ClockCap)]
    /\ UNCHANGED <<regVars, evVars, opVars, subVars, sesVars, ingVars, termVars, brVars, auxVars, hs, sd>>

\* checkAuth lets an operator's request pass: lastRequest = utils.Unix.
CheckAuth_Pass ==
    /\ pl.sinceRequest # 0
    /\ pl' = [pl EXCEPT !.sinceRequest = 0]
    /\ UNCHANGED <<regVars, evVars, opVars, subVars, sesVars, ingVars, termVars, brVars, auxVars, hs, sd>>

\* wsHealthCheck, one iteration of the ping loop. A round starts a pingDevice
\* goroutine for every session of the hub. gap, iv, prevIv and requestSeen
\* record the round: the seconds since the round before, the pingInterval
\* that let it start, and whether a request arrived since the round before.
PingLoop_Tick ==
    /\ pl.due
    /\ LET tick == pl.tick + PingTickSeconds
           pingInterval == IF ResetDue(tick, pl.sinceRequest) THEN PingTickSeconds
                           ELSE pl.pingInterval
           round == tick >= PingTickSeconds /\ (tick >= pingInterval \/ tick >= MaxPingInterval)
       IN pl' = IF round
                THEN [pl EXCEPT !.tick = 0,
                                !.pingInterval = NextPingInterval(pingInterval),
                                !.due = FALSE,
                                !.sinceRound = 0,
                                !.rounds = Least(@ + 1, 2),
                                !.gap = pl.sinceRound,
                                !.iv = pingInterval,
                                !.prevIv = pl.iv,
                                !.requestSeen = (pl.sinceRequest <= pl.sinceRound),
                                !.toPing = hub]
                ELSE [pl EXCEPT !.tick = tick, !.pingInterval = pingInterval, !.due = FALSE]
    /\ UNCHANGED <<regVars, evVars, opVars, subVars, sesVars, ingVars, termVars, brVars, auxVars, hs, sd>>

\* A pingDevice goroutine the round started.
PingLoop_PingDevice(s, t) ==
    /\ s \in pl.toPing
    /\ PingDevice_Do(s, t)
    /\ pl' = [pl EXCEPT !.toPing = @ \ {s}]
    /\ UNCHANGED <<opVars, subVars, sesVars, ingVars, termVars, brVars, auxVars, hs, sd>>

\* ------------------------------------------------------------------ shutdown
\* SIGINT or SIGTERM arrives on main's quit channel.
Signal ==
    /\ ~sd.signalled
    /\ sd' = [sd EXCEPT !.signalled = TRUE]
    /\ UNCHANGED <<regVars, evVars, opVars, subVars, sesVars, ingVars, termVars, brVars, auxVars, hs, pl>>

\* main after <-quit: srv.Shutdown(ctx) with a 3-second deadline. The server
\* stops accepting; the upgraded connections of the hubs are not the HTTP
\* server's any more and are left as they are.
Main_Shutdown ==
    /\ sd.signalled
    /\ ~sd.httpDown
    /\ sd' = [sd EXCEPT !.httpDown = TRUE]
    /\ UNCHANGED <<regVars, evVars, opVars, subVars, sesVars, ingVars, termVars, brVars, auxVars, hs, pl>>

\* main: <-ctx.Done(), CloseLog() and return. Nothing between the signal and
\* the return sends on a hub's exit channel or closes a session.
Main_Exit ==
    /\ sd.httpDown
    /\ ~sd.exited
    /\ sd' = [sd EXCEPT !.exited = TRUE]
    /\ UNCHANGED <<regVars, evVars, opVars, subVars, sesVars, ingVars, termVars, brVars, auxVars, hs, pl>>

\* ------------------------------------------------------------------ strong cipher
MaxPlainLen == 2
NonceLen == 64

\* Plaintexts: [len, val]; the empty plaintext has one content.
Plaintexts == {d \in [len : 0..MaxPlainLen, val : Bytes] : d.len = 0 => d.val = 0}
NoCipherText == [len |-> 0, iv |-> 0, body |-> 0, nonce |-> 0]

\* utils.Encrypt: the nonce is appended, MD5 of data and nonce is the IV of
\* the CTR stream, and the result is hash, encrypted data, encrypted nonce.
Encrypt(data, key, nonce) ==
    LET hash == GetMD5((data.val + 2 * nonce) % 4) IN
    [len |-> MD5Len + data.len + NonceLen, iv |-> hash,
     body |-> XORKeyStream(data.val, NewCTR(key, hash)),
     nonce |-> XORKeyStream(nonce, NewCTR(key, (hash + 1) % 4))]

\* utils.Decrypt: dataLen <= 16+64 is refused; the rest is decrypted, its MD5
\* compared with the first 16 bytes, and the nonce cut off.
Decrypt(data, key) ==
    IF data.len <= MD5Len + NonceLen
    THEN [ok |-> FALSE, len |-> 0, val |-> 0]
    ELSE LET dec == XORKeyStream(data.body, NewCTR(key, data.iv))
             nonce == XORKeyStream(data.nonce, NewCTR(key, (data.iv + 1) % 4)) IN
         IF GetMD5((dec + 2 * nonce) % 4) # data.iv
         THEN [ok |-> FALSE, len |-> 0, val |-> 0]
         ELSE [ok |-> TRUE, len |-> data.len - MD5Len - NonceLen, val |-> dec]

\* A packet is encrypted with a session's secret and a fresh nonce and the
\* receiver decrypts it with the same secret.
EncryptThenDecrypt(data, key, nonce) ==
    /\ cr' = [p |-> data, key |-> key, c |-> Encrypt(data, key, nonce),
              d |-> Decrypt(Encrypt(data, key, nonce), key), done |-> TRUE]
    /\ UNCHANGED wh
    /\ UNCHANGED <<regVars, evVars, opVars, subVars, sesVars, ingVars, termVars, brVars, mainVars>>

\* ------------------------------------------------------------------ handlers that wait for a bridge
\* GetScreenshot and GetDeviceFiles: wait := make(chan bool), called := false,
\* an event callback under the trigger and a bridge with OnPush and OnFinish.
\*   h: the handler; hpc: its position; called; event: the trigger is in the
\*   correlator; bridge: the UUID is in the bridge table; using, dst: the
\*   bridge object's fields; closed: close(wait) has run; cb: the callback's
\*   goroutine; push: the device's BridgePush request.
WaitHandlers == {"GetScreenshot", "GetDeviceFiles"}
NoWait == [h |-> "none", hpc |-> "idle", called |-> FALSE, event |-> FALSE,
           bridge |-> FALSE, using |-> FALSE, dst |-> FALSE, closed |-> FALSE,
           cb |-> "idle", push |-> "idle"]

WaitUnchanged ==
    /\ UNCHANGED cr
    /\ UNCHANGED <<regVars, evVars, opVars, subVars, sesVars, ingVars, termVars, brVars, mainVars>>

\* The handler makes wait and called and sends the command with SendPackByUUID.
Handler_Start(h) ==
    /\ wh.hpc = "idle"
    /\ wh' = [NoWait EXCEPT !.h = h, !.hpc = "sent"]
    /\ WaitUnchanged

\* common.AddEvent(callback, target, trigger).
Handler_AddEvent ==
    /\ wh.hpc = "sent"
    /\ wh' = [wh EXCEPT !.event = TRUE, !.hpc = "added"]
    /\ WaitUnchanged

\* bridge.AddBridgeWithDst(nil, bridgeID, ctx) and the two hooks; the handler
\* then stands at its select.
Handler_AddBridge ==
    /\ wh.hpc = "added"
    /\ wh' = [wh EXCEPT !.bridge = TRUE, !.dst = TRUE, !.hpc = "select"]
    /\ WaitUnchanged

\* The device's reply carries the trigger: CallEvent finds the entry and calls
\* the callback on the session reader's goroutine.
EventCallback_Call ==
    /\ wh.event
    /\ wh.cb = "idle"
    /\ wh' = [wh EXCEPT !.cb = "run"]
    /\ WaitUnchanged

\* The callback up to its send: called = true, RemoveBridge, RemoveEvent, the
\* 500 answer.
EventCallback_Run ==
    /\ wh.cb = "run"
    /\ wh' = [wh EXCEPT !.called = TRUE, !.event = FALSE,
                        !.bridge = FALSE, !.dst = IF wh.bridge THEN FALSE ELSE @,
                        !.cb = "send"]
    /\ WaitUnchanged

\* wait <- false on the unbuffered channel: on a closed channel the send
\* panics (so does a send that was blocked when close ran); on an open one
\* it completes when the handler receives, and blocks until then.
SendOnWait(w, who, next) ==
    IF w.closed
    THEN [w EXCEPT ![who] = "panic"]
    ELSE [w EXCEPT ![who] = next, !.hpc = "close"]

\* The callback's last statement: wait <- false.
EventCallback_Send ==
    /\ wh.cb = "send"
    /\ wh.closed \/ wh.hpc \in {"select", "recv"}
    /\ wh' = SendOnWait(wh, "cb", "done")
    /\ WaitUnchanged

\* BridgePush: CheckBridge finds the bridge, the in-use check passes, Src is
\* attached and using is set.
BridgePush_Mark ==
    /\ wh.push = "idle"
    /\ wh.bridge
    /\ ~wh.using
    /\ wh' = [wh EXCEPT !.using = TRUE, !.push = "hook"]
    /\ WaitUnchanged

\* instance.OnPush: called = true, RemoveEvent, the response headers.
OnPush ==
    /\ wh.push = "hook"
    /\ wh' = [wh EXCEPT !.called = TRUE, !.event = FALSE, !.push = "check"]
    /\ WaitUnchanged

\* BridgePush after the hook: with Dst attached the body is copied and
\* OnFinish follows; without it the request returns.
BridgePush_Splice ==
    /\ wh.push = "check"
    /\ wh' = [wh EXCEPT !.push = IF wh.dst THEN "finish" ELSE "done"]
    /\ WaitUnchanged

\* instance.OnFinish: the log line and wait <- false.
OnFinish ==
    /\ wh.push = "finish"
    /\ wh.closed \/ wh.hpc \in {"select", "recv"}
    /\ wh' = SendOnWait(wh, "push", "remove")
    /\ WaitUnchanged

\* BridgePush after OnFinish: RemoveBridge(bridge.uuid).
BridgePush_Remove ==
    /\ wh.push = "remove"
    /\ wh' = [wh EXCEPT !.bridge = FALSE, !.dst = IF wh.bridge THEN FALSE ELSE @,
                        !.push = "done"]
    /\ WaitUnchanged

\* case <-time.After(5 * time.Second): with called unset the handler removes
\* the bridge and the event and answers 504; with called set it receives
\* from wait.
Handler_Timeout ==
    /\ wh.hpc = "select"
    /\ wh' = IF ~wh.called
             THEN [wh EXCEPT !.bridge = FALSE, !.dst = IF wh.bridge THEN FALSE ELSE @,
                             !.event = FALSE, !.hpc = "close"]
             ELSE [wh EXCEPT !.hpc = "recv"]
    /\ WaitUnchanged

\* close(wait), the handler's last statement.
Handler_Close ==
    /\ wh.hpc = "close"
    /\ wh' = [wh EXCEPT !.closed = TRUE, !.hpc = "done"]
    /\ WaitUnchanged

\* ------------------------------------------------------------------ initial state
NoKick == [by |-> NoConn, id |-> NoID]

RegInit ==
    /\ hub = {}
    /\ sstate = [s \in Sessions |-> "new"]
    /\ output = [s \in Sessions |-> <<>>]
    /\ wpExited = [s \in Sessions |-> FALSE]
    /\ Devices = EmptyMap
    /\ rp = [s \in Sessions |-> IdleH]
    /\ fb = IdleF
    /\ offlineSent = [s \in Sessions |-> FALSE]
    /\ frames = [s \in Sessions |-> 0]
    /\ kicked = [s \in Sessions |-> NoKick]
    /\ lastUp = [d \in DeviceIDs |-> NoConn]
    /\ lastID = [s \in Sessions |-> NoID]

EvInit ==
    /\ events = EmptyMap
    /\ used = {}
    /\ wpc = [t \in Triggers |-> "idle"]
    /\ wsrc = [t \in Triggers |-> "none"]
    /\ wret = [t \in Triggers |-> FALSE]
    /\ finClosed = [t \in Triggers |-> FALSE]
    /\ remClosed = [t \in Triggers |-> FALSE]
    /\ callers = [c \in Callers |-> IdleC]
    /\ removers = [r \in Removers |-> IdleR]
    /\ cbCount = [t \in Triggers |-> 0]
    /\ cbLog = {}
    /\ evConn = [t \in Triggers |-> NoConn]
    /\ rmHit = [t \in Triggers |-> FALSE]
    /\ calls = [t \in Triggers |-> 0]

OpInit ==
    /\ req = [t \in Triggers |-> NoReq]
    /\ hpc = [t \in Triggers |-> "idle"]
    /\ resp = [t \in Triggers |-> 0]
    /\ delivered = [t \in Triggers |-> NoConn]
    /\ sentCmd = [t \in Triggers |-> FALSE]
    /\ replied = [t \in Triggers |-> {}]
    /\ okInTime = [t \in Triggers |-> FALSE]
    /\ form = [t \in Triggers |-> NoForm]

SubInit ==
    /\ subs = [u \in SubIDs |-> NoSub]

SesInit ==
    /\ sw = [w \in Writers |-> IdleW]
    /\ sc = [k \in Closers |-> IdleK]
    /\ chanCloses = [s \in Sessions |-> 0]
    /\ connCloses = [s \in Sessions |-> 0]
    /\ stale = [s \in Sessions |-> FALSE]
    /\ reaped = [s \in Sessions |-> FALSE]

IngInit ==
    /\ lastIn = NoIn

TermInit ==
    /\ subOut = [u \in SubIDs |-> <<>>]
    /\ subIdle = [u \in SubIDs |-> 0]
    /\ subTick = 0
    /\ lastOp = NoOp

BrInit ==
    /\ bridges = {}
    /\ bobj = [b \in BridgeIDs |-> NoBridge]
    /\ breq = [r \in BridgeReqs |-> IdleB]
    /\ gc = [due |-> FALSE, panicked |-> FALSE, sweeps |-> 0]
    /\ bhist = [b \in BridgeIDs |-> NoHist]

MainInit ==
    /\ hs = NoHandshake
    /\ pl = [tick |-> 0, pingInterval |-> PingTickSeconds, phase |-> 0, due |-> FALSE,
             sinceRequest |-> 0, sinceRound |-> 0, rounds |-> 0, gap |-> 0, iv |-> 0,
             prevIv |-> 0, requestSeen |-> FALSE, toPing |-> {}]
    /\ sd = [signalled |-> FALSE, httpDown |-> FALSE, exited |-> FALSE]

AuxInit ==
    /\ cr = [p |-> [len |-> 0, val |-> 0], key |-> 0, c |-> NoCipherText,
             d |-> [ok |-> FALSE, len |-> 0, val |-> 0], done |-> FALSE]
    /\ wh = NoWait

Init == RegInit /\ EvInit /\ OpInit /\ SubInit /\ SesInit /\ IngInit /\ TermInit /\ BrInit /\ MainInit /\ AuxInit

\* The hub once the first device session has been upgraded, has sent DEVICE_UP
\* with the first device ID and has been written the {code:0} reply.
RegInitUp ==
    /\ hub = {1}
    /\ sstate = [s \in Sessions |-> IF s = 1 THEN "open" ELSE "new"]
    /\ output = [s \in Sessions |-> <<>>]
    /\ wpExited = [s \in Sessions |-> FALSE]
    /\ Devices = MapSet(EmptyMap, 1, 1)
    /\ rp = [s \in Sessions |-> IdleH]
    /\ fb = IdleF
    /\ offlineSent = [s \in Sessions |-> FALSE]
    /\ frames = [s \in Sessions |-> IF s = 1 THEN 1 ELSE 0]
    /\ kicked = [s \in Sessions |-> NoKick]
    /\ lastUp = [d \in DeviceIDs |-> IF d = 1 THEN 1 ELSE NoConn]
    /\ lastID = [s \in Sessions |-> IF s = 1 THEN 1 ELSE NoID]

InitUp == RegInitUp /\ EvInit /\ OpInit /\ SubInit /\ SesInit /\ IngInit /\ TermInit /\ BrInit /\ MainInit /\ AuxInit

\* ------------------------------------------------------------------ specifications
\* The device registry: sessions connect, send DEVICE_UP / DEVICE_UPDATE over
\* the websocket or the HTTP fallback, are written to, and go away.
NextReg ==
    \/ \E s \in Sessions : Connect(s)
    \/ \E via \in Vias, s \in Sessions, id \in DeviceIDs : DeviceUp_Scan(via, s, id)
    \/ \E via \in Vias, s \in Sessions : DeviceUp_Remove(via, s)
    \/ \E via \in Vias, s \in Sessions : DeviceUp_Set(via, s)
    \/ \E via \in Vias, s \in Sessions : DeviceUpdate(via, s)
    \/ \E s \in Sessions : WritePump(s)
    \/ \E s \in Sessions : WriteError(s)
    \/ \E s \in Sessions : ReadError(s)
    \/ \E s \in Sessions : SessionEnd(s)
    \/ \E s \in Sessions : WsOnDisconnect_Get(s)
    \/ \E s \in Sessions : WsOnDisconnect_Remove(s)

SpecReg == Init /\ [][NextReg]_vars

\* The correlator's API under any callers: packets with any trigger from any
\* session, removers, and the timer.
CallEventAny(c, t, session) ==
    /\ CallEvent_Get(c, t, session, 0)
    /\ UNCHANGED <<regVars, opVars>>
    /\ UNCHANGED extVars

NextEvent ==
    \/ \E t \in Triggers, conn \in Sessions : AddEventOnce_Set(t, conn)
    \/ \E t \in Triggers, conn \in Sessions : AddEvent(t, conn)
    \/ \E t \in Triggers, c \in Callers : AddEventOnce_Finish(t, c)
    \/ \E t \in Triggers, r \in Removers : AddEventOnce_Remove(t, r)
    \/ \E t \in Triggers : AddEventOnce_Timeout(t)
    \/ \E t \in Triggers : AddEventOnce_Exit(t)
    \/ \E t \in Triggers : AddEventOnce_CloseFinish(t)
    \/ \E t \in Triggers : AddEventOnce_CloseRemove(t)
    \/ \E c \in Callers, t \in Triggers, s \in Sessions : CallEventAny(c, t, s)
    \/ \E c \in Callers : CallEvent_Callback(c)
    \/ \E c \in Callers : CallEvent_SendOnClosed(c)
    \/ \E r \in Removers, t \in Triggers, ok \in BOOLEAN : RemoveEvent_Get(r, t, ok)
    \/ \E r \in Removers : RemoveEvent_Remove(r)
    \/ \E r \in Removers : RemoveEvent_SendOnClosed(r)

SpecEvent == Init /\ [][NextEvent]_vars

\* Operators issue commands while a registered device and sessions that have
\* not registered are written to, answer, and go away.
NextDispatch ==
    \/ \E s \in Sessions : Connect(s)
    \/ \E s \in Sessions : WritePump(s)
    \/ \E s \in Sessions : ReadError(s)
    \/ \E s \in Sessions : SessionEnd(s)
    \/ \E s \in Sessions : WsOnDisconnect_Get(s)
    \/ \E s \in Sessions : WsOnDisconnect_Remove(s)
    \/ \E t \in Triggers, e \in Endpoints, uuid \in Sessions \cup {NoConn},
          device \in DeviceIDs \cup {NoID} : Handler_CheckForm(t, e, uuid, device)
    \/ \E t \in Triggers : Handler_Send(t)
    \/ \E t \in Triggers : Handler_Install(t)
    \/ \E t \in Triggers : Handler_Respond(t)
    \/ \E t \in Triggers, c \in Callers : AddEventOnce_Finish(t, c)
    \/ \E t \in Triggers : AddEventOnce_Timeout(t)
    \/ \E t \in Triggers : AddEventOnce_Exit(t)
    \/ \E t \in Triggers : AddEventOnce_CloseFinish(t)
    \/ \E t \in Triggers : AddEventOnce_CloseRemove(t)
    \/ \E c \in Callers, s \in Sessions, t \in Triggers, code \in {0, 1} :
          DeviceReply_CallEvent(c, s, t, code)
    \/ \E s \in Sessions, t \in Triggers, code \in {0, 1} : DeviceReply_NotRegistered(s, t, code)
    \/ \E c \in Callers : CallEvent_Callback(c)
    \/ \E c \in Callers : CallEvent_SendOnClosed(c)

SpecDispatch == InitUp /\ [][NextDispatch]_vars

\* Operators open terminal and desktop sub-sessions on devices that register,
\* replace one another and go away.
NextSub ==
    \/ \E s \in Sessions : Connect(s)
    \/ \E s \in Sessions, id \in DeviceIDs : DeviceUp_Scan("ws", s, id)
    \/ \E s \in Sessions : DeviceUp_Remove("ws", s)
    \/ \E s \in Sessions : DeviceUp_Set("ws", s)
    \/ \E s \in Sessions : ReadError(s)
    \/ \E s \in Sessions : SessionEnd(s)
    \/ \E s \in Sessions : WsOnDisconnect_Get(s)
    \/ \E s \in Sessions : WsOnDisconnect_Remove(s)
    \/ \E u \in SubIDs, kind \in SubKinds, id \in DeviceIDs : OnSubConnect(u, kind, id)
    \/ \E u \in SubIDs : SubDisconnect(u)
    \/ \E u \in SubIDs : SubClosed(u)

SpecSub == Init /\ [][NextSub]_vars

\* Sessions are written to, closed and reaped by concurrent goroutines while
\* their write pumps drain the output channels.
NextSession ==
    \/ \E s \in Sessions : Connect(s)
    \/ \E w \in Writers, s \in Sessions : Write_Check(w, s)
    \/ \E w \in Writers : WriteMessage_Check(w)
    \/ \E w \in Writers : WriteMessage_Select(w)
    \/ \E k \in Closers, s \in Sessions : Close_Check(k, s)
    \/ \E k \in Closers : Close_Act(k)
    \/ \E s \in Sessions : WritePump(s)
    \/ \E s \in Sessions : GoStale(s)
    \/ Reaper_Tick

SpecSession == Init /\ [][NextSession]_vars

\* Frames of every kind arrive on a registered and on an unregistered session
\* while the server pings them and their write pumps drain the queues.
NextIngress ==
    \/ \E s \in Sessions : Connect(s)
    \/ \E s \in Sessions : WritePump(s)
    \/ \E s \in Sessions, t \in Triggers : PingDevice(s, t)
    \/ \E s \in Sessions, f \in Frames, c \in Callers : WsOnMessageBinary(s, f, c)
    \/ \E c \in Callers : CallEvent_Callback(c)
    \/ \E t \in Triggers, c \in Callers : AddEventOnce_Finish(t, c)
    \/ \E t \in Triggers : AddEventOnce_Exit(t)

SpecIngress == InitUp /\ [][NextIngress]_vars

\* Operators open terminals on the registered device, type and leave, while
\* the device sends frames tagged with the terminals' UUIDs.
NextTerm ==
    \/ \E u \in SubIDs, kind \in SubKinds, id \in DeviceIDs : OnSubConnect(u, kind, id)
    \/ \E u \in SubIDs, f \in OpFrames : OnTerminalMessage(u, f)
    \/ \E u \in SubIDs : SubDisconnect(u)
    \/ \E u \in SubIDs : SubClosed(u)
    \/ \E u \in SubIDs : SubWritePump(u)
    \/ \E s \in Sessions : WritePump(s)
    \/ \E c \in Callers, t \in Triggers, s \in Sessions : CallEventAny(c, t, s)
    \/ \E c \in Callers : CallEvent_Callback(c)

SpecTerm == InitUp /\ [][NextTerm]_vars

\* Operators open sub-sessions and leave while the device sends output and
\* ends sub-sessions on its side.
NextWrapper ==
    \/ \E u \in SubIDs, kind \in SubKinds, id \in DeviceIDs : OnSubConnect(u, kind, id)
    \/ \E u \in SubIDs, act \in {"OUTPUT", "QUIT"} : TerminalEventWrapper(u, act)
    \/ \E u \in SubIDs : SubDisconnect(u)
    \/ \E u \in SubIDs : SubClosed(u)
    \/ \E u \in SubIDs : SubWritePump(u)
    \/ \E s \in Sessions : WritePump(s)

SpecWrapper == InitUp /\ [][NextWrapper]_vars

\* Operators open sub-sessions and go idle while time passes and the
\* sub-session hub's health check ticks.
NextHealth ==
    \/ \E u \in SubIDs, kind \in SubKinds, id \in DeviceIDs : OnSubConnect(u, kind, id)
    \/ \E u \in SubIDs : SubDisconnect(u)
    \/ \E u \in SubIDs : SubClosed(u)
    \/ \E u \in SubIDs : SubWritePump(u)
    \/ AdvanceTime
    \/ WSHealthCheck_Tick

SpecHealth == InitUp /\ [][NextHealth]_vars

\* Handlers allocate bridges, devices and browsers push and pull on them,
\* handlers give transfers up, and the sweep ticks.
NextBridge ==
    \/ \E b \in BridgeIDs, with \in {"none", "src", "dst"} : AddBridge(b, with)
    \/ \E b \in BridgeIDs : RemoveBridge(b)
    \/ \E r \in BridgeReqs, kind \in {"push", "pull"}, b \in BridgeIDs : Bridge_Check(r, kind, b)
    \/ \E r \in BridgeReqs : Bridge_Mark(r)
    \/ \E r \in BridgeReqs, ok \in BOOLEAN : Bridge_Splice(r, ok)
    \/ \E r \in BridgeReqs : Bridge_Finish(r)
    \/ Bridge_Time
    \/ Bridge_Sweep

SpecBridge == Init /\ [][NextBridge]_vars

\* Requests to /ws with every UUID and Key a client can present.
NextHandshake ==
    \/ \E uuid \in PresentedUUIDs, key \in PresentedKeys, upgraded \in BOOLEAN :
          WsHandshake(uuid, key, upgraded)
    \/ \E tooLarge \in BOOLEAN, readable \in BOOLEAN, known \in BOOLEAN :
          WsHandshake_Plain(tooLarge, readable, known)

SpecHandshake == Init /\ [][NextHandshake]_vars

\* The ping loop runs on its ticker while operators' requests arrive at any
\* second.
NextPing ==
    \/ Second
    \/ CheckAuth_Pass
    \/ PingLoop_Tick
    \/ \E s \in Sessions, t \in Triggers : PingLoop_PingDevice(s, t)

SpecPing == InitUp /\ [][NextPing]_vars

\* Operators open and leave sub-sessions until the process is signalled and
\* main shuts the HTTP server down and returns.
NextShutdown ==
    \/ \E u \in SubIDs, kind \in SubKinds, id \in DeviceIDs :
          ~sd.httpDown /\ OnSubConnect(u, kind, id)
    \/ \E u \in SubIDs : ~sd.exited /\ SubDisconnect(u)
    \/ \E s \in Sessions : ~sd.exited /\ WritePump(s)
    \/ Signal
    \/ Main_Shutdown
    \/ Main_Exit

SpecShutdown == InitUp /\ [][NextShutdown]_vars

\* Packets of every length and content are encrypted and decrypted.
NextCrypt ==
    \E data \in Plaintexts, key \in Bytes, nonce \in Bytes : EncryptThenDecrypt(data, key, nonce)

SpecCrypt == Init /\ [][NextCrypt]_vars

\* Screenshot and download requests, the device's failure reply and its push,
\* in every order around the handler's timeout.
NextWait ==
    \/ \E h \in WaitHandlers : Handler_Start(h)
    \/ Handler_AddEvent
    \/ Handler_AddBridge
    \/ EventCallback_Call
    \/ EventCallback_Run
    \/ EventCallback_Send
    \/ BridgePush_Mark
    \/ OnPush
    \/ BridgePush_Splice
    \/ OnFinish
    \/ BridgePush_Remove
    \/ Handler_Timeout
    \/ Handler_Close

SpecWait == Init /\ [][NextWait]_vars

\* ------------------------------------------------------------------ device registry claims
\* C1: at every instant the registry holds at most one entry whose device ID
\* equals any given ID d, whatever the interleaving of DEVICE_UP, DEVICE_UPDATE
\* and disconnects.
AtMostOneEntryPerDevice ==
    \A d \in DeviceIDs : Cardinality(Matches(Devices, d)) <= 1

\* Nothing is pending: no handler is in progress, every output channel is
\* drained or abandoned, and every session whose writer has stopped has been
\* torn down.
Stable ==
    /\ fb.pc = "idle"
    /\ \A s \in Sessions :
        /\ rp[s].pc \in {"idle", "gone"}
        /\ (IsOpen(s) /\ ~wpExited[s]) => output[s] = <<>>
        /\ wpExited[s] => rp[s].pc = "gone"

\* C2: if A is registered with ID X and another session B then sends DEVICE_UP
\* with X, A is sent OFFLINE and is closed, and once all pending handlers have
\* run the registry holds exactly one entry with ID X, keyed by B.
KickedSessionReplaced ==
    \A a, b \in Sessions :
        ( /\ a # b
          /\ kicked[a].by = b
          /\ lastID[b] = kicked[a].id
          /\ lastUp[kicked[a].id] = b
          /\ IsOpen(b)
          /\ Stable )
        => /\ offlineSent[a]
           /\ sstate[a] = "closed"
           /\ Matches(Devices, kicked[a].id) = {b}

\* ------------------------------------------------------------------ correlator claims
OneShot(t) == wpc[t] # "idle"

\* C3: the callback of a one-shot event installed by AddEventOnce is invoked
\* at most once, however many packets carry its trigger.
OneShotCallbackAtMostOnce ==
    \A t \in Triggers : OneShot(t) => cbCount[t] <= 1

\* The completion sources that took effect for a one-shot event: its callback
\* ran, a RemoveEvent removed it, or the timer case was taken.
Effects(t) ==
    (IF cbCount[t] > 0 THEN {"callback"} ELSE {})
    \cup (IF rmHit[t] THEN {"remove"} ELSE {})
    \cup (IF wsrc[t] = "timeout" THEN {"timeout"} ELSE {})

\* C4: for every AddEventOnce call exactly one of callback, explicit remove
\* and timeout resolves the caller, and no two of them take effect.
ExactlyOneCompletion ==
    \A t \in Triggers : wpc[t] = "returned" => Cardinality(Effects(t)) = 1

TriggerGoneAfterReturn ==
    \A t \in Triggers : wpc[t] = "returned" => ~MapHas(events, t)

\* One AddEventOnce has returned through its timeout exit and another through
\* a rendezvous with CallEvent or RemoveEvent.
ReturnedByTimeoutAndSignal ==
    \E t1, t2 \in Triggers :
        /\ wpc[t1] = "returned" /\ wsrc[t1] = "timeout"
        /\ wpc[t2] = "returned" /\ wsrc[t2] \in {"finish", "remove"}

\* ------------------------------------------------------------------ endpoint claims
\* C6: when the device answers a command with code 0 and the command's trigger
\* before the timeout elapses, the operator gets HTTP 200, whenever the reply
\* arrives relative to the handler's steps.
InTimeReplyGets200 ==
    \A t \in Triggers : (hpc[t] = "done" /\ okInTime[t]) => resp[t] = 200

\* AddEventOnce timed out and no reply was handed to the endpoint's callback.
TimedOutUnanswered(t) == hpc[t] = "done" /\ wsrc[t] = "timeout" /\ cbCount[t] = 0

UnknownDevice(f) ==
    /\ ~(f.uuid = NoConn /\ f.device = NoID)
    /\ ~f.known
    /\ f.owners = {}

\* C9: a command whose form identifies no registered device is answered 502
\* and no command packet is sent for it.
UnknownDeviceRejected ==
    \A t \in Triggers :
        (hpc[t] = "done" /\ UnknownDevice(form[t])) => (resp[t] = 502 /\ ~sentCmd[t])

\* C10: CheckDevice called with a connection UUID that is in the registry
\* returns the connection UUID of a device whose ID is the given one, when
\* there is such a device.
CheckDeviceScansForKnownConn ==
    \A t \in Triggers :
        (hpc[t] # "idle" /\ form[t].uuid # NoConn /\ form[t].known /\ form[t].owners # {})
        => (form[t].out[2] /\ form[t].out[1] \in form[t].owners)

\* ------------------------------------------------------------------ sub-session claims
\* C11: CloseSessionsByDevice(id) closes every sub-session in the hub whose
\* attachment has device ID id, however many there are: after the call made by
\* wsOnDisconnect, each of them has been Close()d.
CloseSessionsByDeviceClosesAll ==
    [][\A s \in Sessions :
          (rp[s].pc = "disc" /\ rp'[s].pc = "drop" /\ MapHas(Devices, s)) =>
              \A u \in SubIDs :
                  (subs[u].st \in {"open", "closing"} /\ subs[u].device = Devices[s])
                  => subs'[u].st = "closing"]_vars

\* C12: once a device session has been destroyed and its disconnect handler
\* has run to completion (after which nothing else tears its sub-sessions
\* down), every terminal and desktop sub-session bound to it has been closed.
SubSessionsClosedWithDevice ==
    \A s \in Sessions :
        rp[s].pc = "gone" =>
            \A u \in SubIDs : subs[u].conn = s => subs[u].st \in {"closing", "gone"}

\* C13: once a session's wsOnDisconnect has finished, the registry holds no
\* entry keyed by its connection UUID, then or at any later time.
NoEntryAfterDisconnect ==
    \A s \in Sessions : rp[s].pc = "gone" => ~MapHas(Devices, s)

FullQueueWriteReturnsError ==
    \A w \in Writers :
        (sw[w].pc = "idle" /\ sw[w].full /\ ~sw[w].late) => sw[w].ret = "err"

\* C16: for any number of repeated or concurrent close operations on a
\* session, its connection and its output channel are closed exactly once and
\* no close operation panics.
CloseIsIdempotent ==
    /\ \A s \in Sessions : connCloses[s] <= 1 /\ chanCloses[s] <= 1
    /\ \A k \in Closers : sc[k].pc # "panic"

\* C17: a write that follows or runs concurrently with the closing of the
\* session returns an error and never panics: nothing is sent on an output
\* channel that has been closed.
WriteAfterCloseReturnsError ==
    \A w \in Writers :
        /\ sw[w].ret # "panic"
        /\ (sw[w].pc = "idle" /\ sw[w].late) => sw[w].ret = "err"

\* C20: a session of the device hub whose last packet is more than
\* MaxIdleSeconds old is closed by the reaper's tick: once the tick has run
\* for it, the session is closed, or its close frame is queued or was written.
ReapedSessionClosed ==
    \A s \in Sessions :
        reaped[s] =>
            \/ ~IsOpen(s)
            \/ wpExited[s]
            \/ \E i \in 1..Len(output[s]) : output[s][i].kind = "close"

\* ------------------------------------------------------------------ ingress claims
\* The trigger whose correlator entry the last frame's 16-byte id names.
KeyOfLastIn == TriggerNamed(HexEncodeToString(lastIn.f.id))

\* C18: when a session with no registry entry sends a valid JSON packet that
\* is neither DEVICE_UP nor DEVICE_UPDATE, the packet is not passed to
\* CallEvent and the session is closed: its close frame is on its queue.
UnregisteredPacketClosesSession ==
    [][( /\ frames' # frames
         /\ lastIn'.f \in JSONFrames
         /\ ~MapHas(Devices, lastIn'.s) )
       => /\ calls' = calls
          /\ \E i \in 1..Len(output'[lastIn'.s]) : output'[lastIn'.s][i].kind = "close"]_vars

\* C19 as stated: every frame that passes the binary check with service 20 or
\* 21 and op 0, 1, 2 or 3 is passed to CallEvent under its event id.
RawFrameRoutedForAllOps ==
    [][( /\ frames' # frames
         /\ CheckBinaryPack(lastIn'.f)[3]
         /\ lastIn'.f.op \in 0..3 )
       => calls'[KeyOfLastIn'] = calls[KeyOfLastIn'] + 1]_vars

\* C19 amended: a frame that passes the binary check is passed to CallEvent
\* under its event id exactly when it is longer than 24 bytes and has service
\* 20 with op 0..3 or service 21 with op 0 or 1; every other such frame
\* reaches no correlator entry.
RawFrameRoutedByServiceOps ==
    [][( /\ frames' # frames
         /\ CheckBinaryPack(lastIn'.f)[3] )
       => IF /\ lastIn'.f.len > 24
             /\ \/ lastIn'.f.service = 20 /\ lastIn'.f.op \in 0..3
                \/ lastIn'.f.service = 21 /\ lastIn'.f.op \in 0..1
          THEN /\ calls'[KeyOfLastIn'] = calls[KeyOfLastIn'] + 1
               /\ \A t \in Triggers \ {KeyOfLastIn'} : calls'[t] = calls[t]
          ELSE calls' = calls]_vars

TerminalFrameRoutedAndDropped ==
    /\ lastIn.out = "ignored"
    /\ lastIn.f.service = 21
    /\ lastIn.f.op \in {2, 3}
    /\ \E t \in Triggers : calls[t] > 0 /\ cbCount[t] > 0

\* C32 as stated: a frame takes the binary branch of wsOnMessageBinary if and
\* only if its first four bytes are the magic; every other frame is decrypted
\* as a JSON packet.
BinaryIffMagic ==
    lastIn.out # "none" => (lastIn.f.magic <=> lastIn.out \in {"raw", "ignored"})

\* C32 amended: a frame takes the binary branch if and only if it is longer
\* than 24 bytes, its first four bytes are the magic and its fifth byte is 20
\* or 21; every other frame, with or without the magic, is decrypted as a
\* JSON packet.
BinaryIffMagicServiceAndLength ==
    lastIn.out # "none" =>
        ( (lastIn.f.magic /\ lastIn.f.len > 24 /\ lastIn.f.service \in {20, 21})
          <=> lastIn.out \in {"raw", "ignored"} )

\* A frame with the magic and service 22 failed decryption as a JSON packet.
MagicFrameTreatedAsJSON ==
    lastIn.f.magic /\ lastIn.f.service = 22 /\ lastIn.out = "bad"

\* ------------------------------------------------------------------ sub-session hub claims
\* C21: a terminal or desktop sub-session whose last packet is more than 300
\* seconds old is closed within one reaper tick of 30 seconds: with time
\* observed every 10 seconds, no open sub-session is idle for more than
\* 300 + 30 + 10 seconds.
StaleSubSessionClosedWithin30s ==
    \A u \in SubIDs : subs[u].st = "open" => subIdle[u] <= MaxIdleSeconds + 30 + 10

\* C26: every operator frame on a terminal sub-session whose service is not
\* 21, whose op is neither 0 nor 1, or whose op-1 body is malformed puts a
\* {code:-1} reply and then a close message carrying "invalid request" on the
\* sub-session's queue.
TerminalRejectRepliesAndCloses ==
    [][( /\ lastOp' # lastOp
         /\ \/ lastOp'.f.service # 21
            \/ lastOp'.f.op \notin {0, 1}
            \/ lastOp'.f.op = 1 /\ lastOp'.f.body = "malformed" )
       => LET q == subOut'[lastOp'.u] IN
          \E i, j \in 1..Len(q) :
              i < j /\ q[i] = CodeReply /\ q[j] = InvalidRequestClose]_vars

\* C27: once a sub-session's disconnect handler has run, the correlator has
\* no entry under its UUID, and no CallEvent that starts afterwards finds a
\* callback for that UUID.
NoEntryForDisconnectedTerminal ==
    [][\A u \in SubIDs :
          subs[u].st = "gone" =>
              /\ ~MapHas(events, subs[u].uuid)
              /\ \A c \in Callers :
                    (callers[c].pc = "idle" /\ callers'[c].pc = "callback")
                    => callers'[c].t # subs[u].uuid]_vars

FrameAfterTerminalDisconnect ==
    \E u \in SubIDs :
        /\ subs[u].st = "gone"
        /\ subs[u].uuid # NoTrigger
        /\ calls[subs[u].uuid] > cbCount[subs[u].uuid]
        /\ \A c \in Callers : callers[c].pc = "idle"

\* ------------------------------------------------------------------ bridge claims
\* C22: for any bridge at most one push or pull request ever passes the in-use
\* check, and a request that finds the bridge marked in use is answered 400.
AtMostOnePassesInUseCheck ==
    /\ \A b \in BridgeIDs : bhist[b].passed <= 1
    /\ \A r \in BridgeReqs :
          breq[r].sawUsing => (breq[r].pc = "done" /\ breq[r].resp = 400)

SecondRequestRefused ==
    \E r \in BridgeReqs :
        /\ breq[r].sawUsing
        /\ breq[r].resp = 400
        /\ bhist[breq[r].b].passed = 1

\* C23: once the sweep has run at the current time, the bridge table holds no
\* bridge that is not in use and was created more than 60 seconds ago.
SweepRemovesOldBridges ==
    (gc.sweeps > 0 /\ ~gc.due) =>
        \A b \in bridges : ~(bobj[b].age > BridgeMaxAge /\ ~bobj[b].using)

SessionOnlyForMatchingKey ==
    LET d == DecAES(hs.key, SaltBytes)
        matches == /\ hs.uuid.len = UUIDLen
                   /\ hs.key.len = KeyLen
                   /\ d.ok /\ d.len = hs.uuid.len /\ d.val = hs.uuid.val
    IN /\ hs.created => (matches /\ hs.kind = "upgrade" /\ hs.key = EncAES(hs.uuid, SaltBytes))
       /\ (hs.kind = "upgrade" /\ ~matches) => (hs.resp = 401 /\ ~hs.created)

\* A well-formed Key of the right length, issued for another UUID, was refused.
WrongKeyRefused ==
    /\ hs.kind = "upgrade" /\ hs.resp = 401
    /\ hs.uuid.len = UUIDLen /\ hs.key.len = KeyLen
    /\ DecAES(hs.key, SaltBytes).ok
    /\ hs.key # EncAES(hs.uuid, SaltBytes)

\* ------------------------------------------------------------------ ping loop claims
\* C29: the first ping round comes 3 seconds after the loop starts; a round
\* with no operator request since the round before comes after an interval 3
\* seconds longer than the last one, at most 60 seconds; an operator request
\* is followed by a round within 3 seconds, started by an interval of 3.
PingIntervalGrowsAndResets ==
    /\ pl.rounds = 1 => (pl.gap = 3 /\ pl.iv = 3)
    /\ (pl.rounds = 2 /\ ~pl.requestSeen) =>
           (pl.iv = Least(pl.prevIv + 3, 60) /\ pl.gap = pl.iv)
    /\ (pl.rounds = 2 /\ pl.requestSeen) => pl.iv = 3
    /\ pl.sinceRequest > 3 => pl.sinceRound <= pl.sinceRequest

\* The interval had grown to its maximum when a request brought it back to 3.
ResetFromMaxInterval ==
    /\ pl.rounds = 2 /\ pl.requestSeen /\ pl.prevIv = 60 /\ pl.iv = 3 /\ pl.sinceRound = 0

\* ------------------------------------------------------------------ shutdown claims
\* C30: when main has returned after a signal, the exit of the terminal hub
\* and of the desktop hub has closed and removed every session, so that no
\* session is left in either hub's session map.
ShutdownClosesSubSessions ==
    sd.exited => \A kind \in SubKinds : InSubHub(subs, kind) = {}

\* ------------------------------------------------------------------ cipher claims
\* C31: for every plaintext, the empty one included, and every key,
\* Decrypt(Encrypt(p, k), k) succeeds and returns p.
DecryptInvertsEncrypt ==
    cr.done => (cr.d.ok /\ cr.d.len = cr.p.len /\ cr.d.val = cr.p.val)

\* ------------------------------------------------------------------ concurrency claims
\* C33: for one device session, wsOnMessageBinary never runs on the session's
\* reader and on an HTTP fallback request at the same time.
IngressHandlerSerialPerSession ==
    \A s \in Sessions :
        ~(rp[s].pc \in {"remove", "set"} /\ fb.pc \in {"remove", "set"} /\ fb.s = s)

\* C34: a step of one session's teardown after a read or write error (the
\* pump ends, the session leaves the hub and is closed, wsOnDisconnect drops
\* its registry entry) changes nothing of any other device session: its
\* state, queue, pumps, hub membership and registry entry stay as they were.
TransportErrorStaysLocal ==
    [][\A s \in Sessions :
          ( \/ rp'[s] # rp[s] /\ rp'[s].pc \in {"end", "disc", "drop", "gone"}
            \/ wpExited'[s] /\ ~wpExited[s] )
          => \A t \in Sessions \ {s} :
                 /\ sstate'[t] = sstate[t]
                 /\ output'[t] = output[t]
                 /\ wpExited'[t] = wpExited[t]
                 /\ rp'[t] = rp[t]
                 /\ (t \in hub') = (t \in hub)
                 /\ MapHas(Devices', t) = MapHas(Devices, t)
                 /\ MapHas(Devices, t) => Devices'[t] = Devices[t]]_vars

\* One session was torn down after an error while another one stayed open,
\* in the hub and registered.
TornDownBesideOpenSession ==
    \E s \in Sessions, t \in Sessions :
        /\ s # t
        /\ rp[s].pc = "gone"
        /\ IsOpen(t) /\ t \in hub /\ MapHas(Devices, t) /\ rp[t].pc = "idle"

\* ------------------------------------------------------------------ sub-session correlator claims
\* C35: every open terminal or desktop sub-session has its correlator entry,
\* installed under its UUID for its device connection, so that a frame the
\* device tags with the UUID finds it.
OpenSubSessionHasEntry ==
    \A u \in SubIDs :
        subs[u].st = "open" =>
            (MapHas(events, subs[u].uuid) /\ events[subs[u].uuid].connection = subs[u].conn)

\* C36: neither CallEvent nor RemoveEvent ever sends on a finish or remove
\* channel that AddEventOnce has closed on its way out.
NoSendOnClosedRendezvous ==
    /\ \A c \in Callers : ~(callers[c].pc = "panic" /\ finClosed[callers[c].t])
    /\ \A r \in Removers : ~(removers[r].pc = "panic" /\ remClosed[removers[r].t])

\* C37: when a session that is the only one registered under a device ID
\* sends DEVICE_UP with that ID again, the scan of OnDevicePack puts neither
\* OFFLINE nor a close message on that session's own queue.
SelfReRegisterKeepsSession ==
    [][\A s \in Sessions :
          ( /\ rp[s].pc = "idle"
            /\ rp'[s].pc \in {"remove", "set"}
            /\ Matches(Devices, rp'[s].id) = {s} )
          => output'[s] = output[s]]_vars

\* ------------------------------------------------------------------ close requests
\* Sessions under writers, the reaper, their write pumps and their readers.
NextSessionLive ==
    \/ \E s \in Sessions : Connect(s)
    \/ \E w \in Writers, s \in Sessions : Write_Check(w, s)
    \/ \E w \in Writers : WriteMessage_Check(w)
    \/ \E w \in Writers : WriteMessage_Select(w)
    \/ \E s \in Sessions : WritePump(s)
    \/ \E s \in Sessions : GoStale(s)
    \/ Reaper_Tick
    \/ \E s \in Sessions : ReadError(s)
    \/ \E s \in Sessions : SessionEnd(s)

\* The scheduler runs every goroutine that can take a step: the write pump
\* writes what is queued, a peer that was sent a close frame answers it (which
\* ends the read loop), and a read loop that has ended closes its session.
SpecSessionLive ==
    /\ Init
    /\ [][NextSessionLive]_vars
    /\ \A s \in Sessions : WF_vars(WritePump(s))
    /\ \A s \in Sessions : WF_vars(wpExited[s] /\ ReadError(s))
    /\ \A s \in Sessions : WF_vars(SessionEnd(s))

SpecBridgeLive ==
    /\ Init
    /\ [][NextBridge]_vars
    /\ WF_vars(Bridge_Time)
    /\ WF_vars(Bridge_Sweep)
    /\ \A r \in BridgeReqs : WF_vars(Bridge_Mark(r))
    /\ \A r \in BridgeReqs : WF_vars(\E ok \in BOOLEAN : Bridge_Splice(r, ok))
    /\ \A r \in BridgeReqs : WF_vars(Bridge_Finish(r))

\* C39: every bridge added to the bridge table is eventually removed from it,
\* and so is a bridge that a push or pull has marked in use.
MarkedBridgeEventuallyRemoved ==
    \A b \in BridgeIDs : []((b \in bridges /\ bobj[b].using) => <>(b \notin bridges))

\* ------------------------------------------------------------------ wait channel claims
\* C40: in the screenshot and file-download handlers no event callback and no
\* bridge hook sends on the handler's wait channel once the handler has
\* closed it, wherever the device's reply and its push fall around the
\* handler's timeout.
NoSendOnClosedWait ==
    wh.cb # "panic" /\ wh.push # "panic"

====
